---- MODULE Spec2Model ----
(***************************************************************************)
(* A model of the tree-walking interpreter of interpreter_in_rust: the     *)
(* environment (environment.rs), the resolver (resolver.rs), the           *)
(* expression evaluator (expr.rs), the statement interpreter               *)
(* (interpreter.rs) and the REPL loop that feeds them (main.rs).           *)
(*                                                                         *)
(* The evaluator is recursive in the source and is modelled by recursive   *)
(* operators that thread the heap (frames, instance field vectors, printed *)
(* lines) through every call.  A Rust Result is a record with kind "ok" or *)
(* "err"; a Rust panic is kind "panic"; a loop that provably never ends is *)
(* kind "diverge".                                                         *)
(***************************************************************************)
EXTENDS Integers, Sequences, FiniteSets, TLC

(***************************************************************************)
(* Bounds of the model.                                                    *)
(***************************************************************************)
\* Largest number literal the generated programs use.
MaxVal == 2
\* Loop iterations the model follows before it gives up on a `while`.
MaxIter == 3

(***************************************************************************)
(* Finite maps (HashMap) and options.                                      *)
(***************************************************************************)
EmptyMap == [x \in {} |-> 0]

Has(m, k) == k \in DOMAIN m

Insert(m, k, v) == (k :> v) @@ m

None == <<>>

Some(x) == <<x>>

(***************************************************************************)
(* Run-time values: enum Literal of expr.rs.  A String holds its           *)
(* characters as a sequence of one-character strings.                      *)
(***************************************************************************)
Number(x) == [t |-> "Number", n |-> x]

String(chars) == [t |-> "String", s |-> chars]

True == [t |-> "True"]

False == [t |-> "False"]

Nil == [t |-> "Nil"]

FunctionImpl(name, params, body, env) ==
    [name |-> name, arity |-> Len(params), parent_env |-> env,
     params |-> params, body |-> body]

Callable(fun) == [t |-> "Function", fun |-> fun]

NativeFunction(name, arity) == [t |-> "NativeFunction", name |-> name, arity |-> arity]

Class(name, methods, superclass) ==
    [t |-> "Class", name |-> name, methods |-> methods, superclass |-> superclass]

Instance(class, fields) == [t |-> "Instance", class |-> class, fields |-> fields]

from_bool(b) == IF b THEN True ELSE False

to_type(v) ==
    CASE v.t = "Number" -> "Number"
      [] v.t = "String" -> "String"
      [] v.t \in {"Function", "NativeFunction"} -> "Callable"
      [] v.t \in {"True", "False"} -> "Boolean"
      [] v.t = "Nil" -> "Nil"
      [] v.t = "Class" -> "Class"
      [] v.t = "Instance" -> "Instance"

(***************************************************************************)
(* Text of a value: impl ToString for Literal.                             *)
(***************************************************************************)
Digit(d) == <<"0", "1", "2", "3", "4", "5", "6", "7", "8", "9">>[d + 1]

RECURSIVE NatToString(_)
NatToString(x) ==
    IF x < 10 THEN <<Digit(x)>> ELSE NatToString(x \div 10) \o <<Digit(x % 10)>>

NumToString(x) == IF x < 0 THEN <<"-">> \o NatToString(-x) ELSE NatToString(x)

Chars(name) ==
    CASE name = "true" -> <<"t", "r", "u", "e">>
      [] name = "false" -> <<"f", "a", "l", "s", "e">>
      [] name = "nil" -> <<"n", "i", "l">>
      [] OTHER -> <<name>>

to_string(v) ==
    CASE v.t = "Number" -> NumToString(v.n)
      [] v.t = "String" -> v.s
      [] v.t = "True" -> Chars("true")
      [] v.t = "False" -> Chars("false")
      [] v.t = "Nil" -> Chars("nil")
      [] v.t = "Class" -> <<"Class '">> \o Chars(v.name) \o <<"'">>
      [] v.t = "Function" -> Chars(v.fun.name) \o <<"/">> \o NatToString(v.fun.arity)
      [] v.t = "NativeFunction" -> Chars(v.name) \o <<"/">> \o NatToString(v.arity)
      [] v.t = "Instance" -> <<"Instance of '">> \o Chars(v.class.name) \o <<"'">>

\* str::replacen("{}", arg, 1): the first "{}" of s replaced by arg.
RECURSIVE replacen(_, _)
replacen(s, arg) ==
    IF Len(s) < 2 THEN s
    ELSE IF s[1] = "{" /\ s[2] = "}" THEN arg \o SubSeq(s, 3, Len(s))
    ELSE <<s[1]>> \o replacen(Tail(s), arg)

(***************************************************************************)
(* Syntax trees: enum Expr of expr.rs and enum Stmt of stmt.rs (with the   *)
(* `arguments` of Print and the `superclass` of Class that parser.rs and   *)
(* interpreter.rs build and match).  A constructor leaves the id 0; the    *)
(* parser numbers the nodes.  A token is kept as its name or its type.     *)
(***************************************************************************)
AnonFunction(arguments, body) ==
    [k |-> "AnonFunction", id |-> 0, arguments |-> arguments, body |-> body]

Assign(name, value) == [k |-> "Assign", id |-> 0, name |-> name, value |-> value]

Binary(left, operator, right) ==
    [k |-> "Binary", id |-> 0, left |-> left, operator |-> operator, right |-> right]

Call(callee, arguments) ==
    [k |-> "Call", id |-> 0, callee |-> callee, arguments |-> arguments]

Get(object, name) == [k |-> "Get", id |-> 0, object |-> object, name |-> name]

Grouping(expression) == [k |-> "Grouping", id |-> 0, expression |-> expression]

Literal(value) == [k |-> "Literal", id |-> 0, value |-> value]

Logical(left, operator, right) ==
    [k |-> "Logical", id |-> 0, left |-> left, operator |-> operator, right |-> right]

Set(object, name, value) ==
    [k |-> "Set", id |-> 0, object |-> object, name |-> name, value |-> value]

Super(method) == [k |-> "Super", id |-> 0, method |-> method]

This == [k |-> "This", id |-> 0]

Unary(operator, right) == [k |-> "Unary", id |-> 0, operator |-> operator, right |-> right]

Variable(name) == [k |-> "Variable", id |-> 0, name |-> name]

Expression(expression) == [k |-> "Expression", expression |-> expression]

PrintStmt(expression, arguments) ==
    [k |-> "Print", expression |-> expression, arguments |-> arguments]

Var(name, initializer) == [k |-> "Var", name |-> name, initializer |-> initializer]

Block(statements) == [k |-> "Block", statements |-> statements]

IfStmt(condition, then_branch, else_branch) ==
    [k |-> "IfStmt", condition |-> condition, then_branch |-> then_branch,
     else_branch |-> else_branch]

WhileStmt(condition, body) == [k |-> "WhileStmt", condition |-> condition, body |-> body]

Function(name, params, body) ==
    [k |-> "Function", name |-> name, params |-> params, body |-> body]

ReturnStmt(value) == [k |-> "ReturnStmt", value |-> value]

ClassStmt(name, methods, superclass) ==
    [k |-> "Class", name |-> name, methods |-> methods, superclass |-> superclass]

(***************************************************************************)
(* Parser: the numbering of the expression nodes.  Parser::new starts      *)
(* next_id at 0 and get_id hands out next_id and adds one to it; each      *)
(* grammar rule calls get_id at the place noted.  The result of a rule is  *)
(* the numbered node and the parser's next_id after it.                    *)
(***************************************************************************)
Parser_new == [next_id |-> 0]

get_id(parser) == [id |-> parser.next_id, parser |-> [parser EXCEPT !.next_id = @ + 1]]

RECURSIVE ParseExpr(_, _)
RECURSIVE ParseExprs(_, _)
RECURSIVE ParseStmt(_, _)
RECURSIVE ParseStmts(_, _)

ParseExpr(e, p) ==
    CASE e.k \in {"Literal", "Variable", "This", "Super"} ->
            \* primary: the node is built with a fresh id
            LET g == get_id(p) IN [node |-> [e EXCEPT !.id = g.id], parser |-> g.parser]
      [] e.k = "Grouping" ->
            LET a == ParseExpr(e.expression, p)
                g == get_id(a.parser)
            IN  [node |-> [e EXCEPT !.id = g.id, !.expression = a.node], parser |-> g.parser]
      [] e.k = "Unary" ->
            \* unary: the id is taken before the operand is parsed
            LET g == get_id(p)
                a == ParseExpr(e.right, g.parser)
            IN  [node |-> [e EXCEPT !.id = g.id, !.right = a.node], parser |-> a.parser]
      [] e.k = "Binary" ->
            \* equality, comparison, term, factor: left, id, right
            LET a == ParseExpr(e.left, p)
                g == get_id(a.parser)
                b == ParseExpr(e.right, g.parser)
            IN  [node |-> [e EXCEPT !.id = g.id, !.left = a.node, !.right = b.node],
                 parser |-> b.parser]
      [] e.k = "Logical" ->
            \* or, and: left, right, id
            LET a == ParseExpr(e.left, p)
                b == ParseExpr(e.right, a.parser)
                g == get_id(b.parser)
            IN  [node |-> [e EXCEPT !.id = g.id, !.left = a.node, !.right = b.node],
                 parser |-> g.parser]
      [] e.k = "Call" ->
            \* finish_call: callee, arguments, id
            LET a == ParseExpr(e.callee, p)
                b == ParseExprs(e.arguments, a.parser)
                g == get_id(b.parser)
            IN  [node |-> [e EXCEPT !.id = g.id, !.callee = a.node, !.arguments = b.nodes],
                 parser |-> g.parser]
      [] e.k = "Get" ->
            LET a == ParseExpr(e.object, p)
                g == get_id(a.parser)
            IN  [node |-> [e EXCEPT !.id = g.id, !.object = a.node], parser |-> g.parser]
      [] e.k = "Assign" ->
            \* assignment: the target is parsed as a Variable (its id is
            \* dropped with it), then the value, then the Assign takes its id
            LET t == get_id(p)
                a == ParseExpr(e.value, t.parser)
                g == get_id(a.parser)
            IN  [node |-> [e EXCEPT !.id = g.id, !.value = a.node], parser |-> g.parser]
      [] e.k = "Set" ->
            \* assignment: the target is parsed as a Get (object, then the
            \* Get's id, dropped), then the value, then the Set takes its id
            LET o == ParseExpr(e.object, p)
                t == get_id(o.parser)
                a == ParseExpr(e.value, t.parser)
                g == get_id(a.parser)
            IN  [node |-> [e EXCEPT !.id = g.id, !.object = o.node, !.value = a.node],
                 parser |-> g.parser]
      [] e.k = "AnonFunction" ->
            \* function_expression: the body, then the id
            LET b == ParseStmts(e.body, p)
                g == get_id(b.parser)
            IN  [node |-> [e EXCEPT !.id = g.id, !.body = b.nodes], parser |-> g.parser]

ParseExprs(es, p) ==
    IF es = <<>> THEN [nodes |-> <<>>, parser |-> p]
    ELSE LET a == ParseExpr(Head(es), p)
             r == ParseExprs(Tail(es), a.parser)
         IN  [nodes |-> <<a.node>> \o r.nodes, parser |-> r.parser]

ParseStmt(s, p) ==
    CASE s.k = "Expression" ->
            LET a == ParseExpr(s.expression, p)
            IN  [node |-> [s EXCEPT !.expression = a.node], parser |-> a.parser]
      [] s.k = "Print" ->
            LET a == ParseExpr(s.expression, p)
                b == ParseExprs(s.arguments, a.parser)
            IN  [node |-> [s EXCEPT !.expression = a.node, !.arguments = b.nodes],
                 parser |-> b.parser]
      [] s.k = "Var" ->
            LET a == ParseExpr(s.initializer, p)
            IN  [node |-> [s EXCEPT !.initializer = a.node], parser |-> a.parser]
      [] s.k = "Block" ->
            LET b == ParseStmts(s.statements, p)
            IN  [node |-> [s EXCEPT !.statements = b.nodes], parser |-> b.parser]
      [] s.k = "IfStmt" ->
            LET c == ParseExpr(s.condition, p)
                a == ParseStmt(s.then_branch, c.parser)
                b == ParseStmts(s.else_branch, a.parser)
            IN  [node |-> [s EXCEPT !.condition = c.node, !.then_branch = a.node,
                                    !.else_branch = b.nodes],
                 parser |-> b.parser]
      [] s.k = "WhileStmt" ->
            LET c == ParseExpr(s.condition, p)
                b == ParseStmt(s.body, c.parser)
            IN  [node |-> [s EXCEPT !.condition = c.node, !.body = b.node],
                 parser |-> b.parser]
      [] s.k = "Function" ->
            LET b == ParseStmts(s.body, p)
            IN  [node |-> [s EXCEPT !.body = b.nodes], parser |-> b.parser]
      [] s.k = "ReturnStmt" ->
            LET a == ParseExprs(s.value, p)
            IN  [node |-> [s EXCEPT !.value = a.nodes], parser |-> a.parser]
      [] s.k = "Class" ->
            \* class_declaration: the superclass Variable, then the methods
            LET a == ParseExprs(s.superclass, p)
                b == ParseStmts(s.methods, a.parser)
            IN  [node |-> [s EXCEPT !.superclass = a.nodes, !.methods = b.nodes],
                 parser |-> b.parser]

ParseStmts(ss, p) ==
    IF ss = <<>> THEN [nodes |-> <<>>, parser |-> p]
    ELSE LET a == ParseStmt(Head(ss), p)
             r == ParseStmts(Tail(ss), a.parser)
         IN  [nodes |-> <<a.node>> \o r.nodes, parser |-> r.parser]

\* Parser::parse on a fresh parser: the statements of one source text.
parse(source) == ParseStmts(source, Parser_new).nodes

(***************************************************************************)
(* Resolver (resolver.rs).  The resolver's state is its scope stack, the   *)
(* kind of the function being resolved and the distance table it fills.    *)
(* Every step yields [ok, msg, rs]: Ok(()) with the state after it, or the *)
(* Err that `?` hands to the caller.                                       *)
(***************************************************************************)
Resolver_new == [scopes |-> <<>>, current_function |-> "None", locals |-> EmptyMap]

ROk(rs) == [ok |-> TRUE, msg |-> "", rs |-> rs]

RErr(msg, rs) == [ok |-> FALSE, msg |-> msg, rs |-> rs]

begin_scope(rs) == [rs EXCEPT !.scopes = Append(@, EmptyMap)]

end_scope(rs) == [rs EXCEPT !.scopes = SubSeq(@, 1, Len(@) - 1)]

\* scopes.last_mut().insert(name, flag)
scope_insert(rs, name, flag) ==
    [rs EXCEPT !.scopes[Len(rs.scopes)] = Insert(@, name, flag)]

declare(rs, name) ==
    IF rs.scopes = <<>> THEN ROk(rs)
    ELSE IF Has(rs.scopes[Len(rs.scopes)], name) THEN RErr("DuplicateDeclaration", rs)
    ELSE ROk(scope_insert(rs, name, FALSE))

resolver_define(rs, name) ==
    IF rs.scopes = <<>> THEN rs ELSE scope_insert(rs, name, TRUE)

resolve_local(rs, name, resolve_id) ==
    LET size == Len(rs.scopes)
        holders == {i \in 1..size : Has(rs.scopes[i], name)}
    IN  IF holders = {} THEN ROk(rs)
        ELSE LET i == CHOOSE j \in holders : \A h \in holders : h <= j
             IN  ROk([rs EXCEPT !.locals = Insert(@, resolve_id, size - i)])

\* resolve_expr_var without the look at the innermost scope's flag.
resolve_expr_var_unchecked(rs, expr) == resolve_local(rs, expr.name, expr.id)

resolve_expr_var(rs, expr) ==
    IF /\ rs.scopes # <<>>
       /\ Has(rs.scopes[Len(rs.scopes)], expr.name)
       /\ rs.scopes[Len(rs.scopes)][expr.name] = FALSE
    THEN RErr("SelfReferenceInInitializer", rs)
    ELSE resolve_local(rs, expr.name, expr.id)

\* resolve_internal and resolve_expr call each other through every nesting
\* of the program; resolve_dispatch is the one point these calls go through.
RECURSIVE resolve_dispatch(_, _, _)
RECURSIVE resolve_many(_, _)
RECURSIVE resolve_exprs(_, _)
RECURSIVE resolve_params(_, _)
RECURSIVE resolve_methods(_, _)

\* self.resolve_internal(stmt)
resolve_internal(rs, stmt) == resolve_dispatch("stmt", rs, stmt)

\* self.resolve_expr(expr)
resolve_expr(rs, expr) == resolve_dispatch("expr", rs, expr)

\* for param in params { declare(param)?; define(param); }
resolve_params(rs, params) ==
    IF params = <<>> THEN ROk(rs)
    ELSE LET d == declare(rs, Head(params))
         IN  IF ~d.ok THEN d
             ELSE resolve_params(resolver_define(d.rs, Head(params)), Tail(params))

\* resolve_function_helper without `self.current_function = enclosing_function`.
resolve_function_helper_keeps_kind(rs, params, body, resolving_function) ==
    LET r0 == begin_scope([rs EXCEPT !.current_function = resolving_function])
        r1 == resolve_params(r0, params)
        r2 == resolve_many(r1.rs, body)
    IN  IF ~r1.ok THEN r1
        ELSE IF ~r2.ok THEN r2
        ELSE ROk(end_scope(r2.rs))

resolve_function_helper(rs, params, body, resolving_function) ==
    LET enclosing_function == rs.current_function
        r0 == begin_scope([rs EXCEPT !.current_function = resolving_function])
        r1 == resolve_params(r0, params)
        r2 == resolve_many(r1.rs, body)
    IN  IF ~r1.ok THEN r1
        ELSE IF ~r2.ok THEN r2
        ELSE ROk([end_scope(r2.rs) EXCEPT !.current_function = enclosing_function])

resolve_function(rs, stmt, fn_type) ==
    LET d == declare(rs, stmt.name)
    IN  IF ~d.ok THEN d
        ELSE resolve_function_helper(resolver_define(d.rs, stmt.name),
                                     stmt.params, stmt.body, fn_type)

resolve_expr_assign(rs, expr) ==
    LET v == resolve_expr(rs, expr.value)
    IN  IF ~v.ok THEN v ELSE resolve_local(v.rs, expr.name, expr.id)

\* The `match expr` of Resolver::resolve_expr
resolve_expr_match(rs, expr) ==
    CASE expr.k = "Variable" -> resolve_expr_var(rs, expr)
      [] expr.k = "Assign" -> resolve_expr_assign(rs, expr)
      [] expr.k \in {"Binary", "Logical"} ->
            LET l == resolve_expr(rs, expr.left)
            IN  IF ~l.ok THEN l ELSE resolve_expr(l.rs, expr.right)
      [] expr.k = "Call" ->
            LET c == resolve_expr(rs, expr.callee)
            IN  IF ~c.ok THEN c ELSE resolve_exprs(c.rs, expr.arguments)
      [] expr.k = "Get" -> resolve_expr(rs, expr.object)
      [] expr.k = "Grouping" -> resolve_expr(rs, expr.expression)
      [] expr.k = "Literal" -> ROk(rs)
      [] expr.k = "Unary" -> resolve_expr(rs, expr.right)
      [] expr.k = "AnonFunction" ->
            resolve_function_helper(rs, expr.arguments, expr.body, "Function")
      [] expr.k = "Set" ->
            LET v == resolve_expr(rs, expr.value)
            IN  IF ~v.ok THEN v ELSE resolve_expr(v.rs, expr.object)
      [] expr.k = "This" ->
            IF rs.current_function # "Method" THEN RErr("ThisOutsideMethod", rs)
            ELSE resolve_local(rs, "this", expr.id)
      [] expr.k = "Super" ->
            IF rs.current_function # "Method" THEN RErr("SuperOutsideMethod", rs)
            ELSE IF \/ Len(rs.scopes) < 3
                    \/ ~Has(rs.scopes[Len(rs.scopes) - 2], "super")
                 THEN RErr("InvalidSuperUsage", rs)
            ELSE resolve_local(rs, "super", expr.id)

\* for arg in arguments { resolve_expr(arg)?; }
resolve_exprs(rs, exprs) ==
    IF exprs = <<>> THEN ROk(rs)
    ELSE LET a == resolve_expr(rs, Head(exprs))
         IN  IF ~a.ok THEN a ELSE resolve_exprs(a.rs, Tail(exprs))

resolve_block(rs, stmt) ==
    LET b == resolve_many(begin_scope(rs), stmt.statements)
    IN  IF ~b.ok THEN b ELSE ROk(end_scope(b.rs))

resolve_var(rs, stmt) ==
    LET d == declare(rs, stmt.name)
        i == resolve_expr(d.rs, stmt.initializer)
    IN  IF ~d.ok THEN d
        ELSE IF ~i.ok THEN i
        ELSE ROk(resolver_define(i.rs, stmt.name))

resolve_print(rs, stmt) ==
    LET e == resolve_expr(rs, stmt.expression)
    IN  IF ~e.ok THEN e ELSE resolve_exprs(e.rs, stmt.arguments)

resolve_if_stmt(rs, stmt) ==
    LET c == resolve_expr(rs, stmt.condition)
        a == resolve_internal(c.rs, stmt.then_branch)
    IN  IF ~c.ok THEN c
        ELSE IF ~a.ok THEN a
        ELSE resolve_many(a.rs, stmt.else_branch)

\* for method in methods { resolve_function(method, Method)?; }
resolve_methods(rs, methods) ==
    IF methods = <<>> THEN ROk(rs)
    ELSE LET m == resolve_function(rs, Head(methods), "Method")
         IN  IF ~m.ok THEN m ELSE resolve_methods(m.rs, Tail(methods))

\* Stmt::Class of resolve_internal
resolve_class(rs, stmt) ==
    LET has_super == stmt.superclass # None
        superclass_expr == stmt.superclass[1]
        s == resolve_expr(rs, superclass_expr)
        \* the scope that binds `super`, opened before the class name is declared
        r0 == IF has_super THEN scope_insert(begin_scope(s.rs), "super", TRUE) ELSE rs
        d == declare(r0, stmt.name)
        r1 == scope_insert(begin_scope(resolver_define(d.rs, stmt.name)), "this", TRUE)
        m == resolve_methods(r1, stmt.methods)
        r2 == end_scope(m.rs)
    IN  IF has_super /\ superclass_expr.k = "Variable" /\ superclass_expr.name = stmt.name
        THEN RErr("SelfInheritingClass", rs)
        ELSE IF has_super /\ ~s.ok THEN s
        ELSE IF ~d.ok THEN d
        ELSE IF ~m.ok THEN m
        ELSE ROk(IF has_super THEN end_scope(r2) ELSE r2)

\* The `match stmt` of Resolver::resolve_internal
resolve_internal_match(rs, stmt) ==
    CASE stmt.k = "Block" -> resolve_block(rs, stmt)
      [] stmt.k = "Var" -> resolve_var(rs, stmt)
      [] stmt.k = "Function" -> resolve_function(rs, stmt, "Function")
      [] stmt.k = "Expression" -> resolve_expr(rs, stmt.expression)
      [] stmt.k = "IfStmt" -> resolve_if_stmt(rs, stmt)
      [] stmt.k = "Print" -> resolve_print(rs, stmt)
      [] stmt.k = "ReturnStmt" ->
            IF rs.current_function = "None" THEN RErr("ReturnOutsideFunction", rs)
            ELSE resolve_exprs(rs, stmt.value)
      [] stmt.k = "WhileStmt" ->
            LET c == resolve_expr(rs, stmt.condition)
            IN  IF ~c.ok THEN c ELSE resolve_internal(c.rs, stmt.body)
      [] stmt.k = "Class" -> resolve_class(rs, stmt)

resolve_dispatch(what, rs, node) ==
    IF what = "stmt" THEN resolve_internal_match(rs, node)
    ELSE resolve_expr_match(rs, node)

resolve_many(rs, stmts) ==
    IF stmts = <<>> THEN ROk(rs)
    ELSE LET r == resolve_internal(rs, Head(stmts))
         IN  IF ~r.ok THEN r ELSE resolve_many(r.rs, Tail(stmts))

\* Resolver::resolve: the distance table of a program, or the error.
resolve(stmts) ==
    LET r == resolve_many(Resolver_new, stmts)
    IN  [ok |-> r.ok, msg |-> r.msg, locals |-> r.rs.locals]

(***************************************************************************)
(* Environment (environment.rs).  `values` is an Rc<RefCell<HashMap>>: a   *)
(* clone of an Environment shares it, so a frame is one entry of the heap  *)
(* st.frames and an Environment is the index of its frame; `enclosing` is  *)
(* the index of the enclosing frame, 0 for none.  `locals` is one shared   *)
(* Rc<RefCell<HashMap>> for every environment made from the interpreter's. *)
(* st.insts holds the field vectors of the instances                       *)
(* (Rc<RefCell<Vec<(String, Literal)>>>) and st.out the printed lines.     *)
(***************************************************************************)
get_globals == "clock" :> NativeFunction("clock", 0)

\* The model's clock stands still: the native returns the same reading.
clock_impl(args) == Number(0)

GlobalFrame == 1

Environment_new(locals) ==
    [frames |-> <<[values |-> get_globals, enclosing |-> 0]>>,
     insts |-> <<>>, out |-> <<>>, locals |-> locals]

\* for (k, v) in locals { self.locals.insert(k, v) }
Environment_resolve(st, locals) == [st EXCEPT !.locals = locals @@ @]

enclose(st, env) ==
    [st |-> [st EXCEPT !.frames = Append(@, [values |-> EmptyMap, enclosing |-> env])],
     env |-> Len(st.frames) + 1]

\* define that also writes the enclosing frame, when there is one.
define_through(st, env, name, value) ==
    LET up == st.frames[env].enclosing
    IN  [st EXCEPT !.frames =
            [f \in DOMAIN @ |->
                IF f = env \/ f = up
                THEN [@[f] EXCEPT !.values = Insert(@, name, value)]
                ELSE @[f]]]

define(st, env, name, value) ==
    [st EXCEPT !.frames[env].values = Insert(@, name, value)]

get_distance(st, expr_id) ==
    IF Has(st.locals, expr_id) THEN Some(st.locals[expr_id]) ELSE None

\* values.get(name).cloned()
lookup(st, env, name) ==
    IF Has(st.frames[env].values, name) THEN Some(st.frames[env].values[name]) ELSE None

RECURSIVE get_internal(_, _, _, _)
get_internal(st, env, name, distance) ==
    IF distance # None
    THEN IF distance[1] = 0 THEN [panic |-> FALSE, val |-> lookup(st, env, name)]
         ELSE IF st.frames[env].enclosing # 0
              THEN get_internal(st, st.frames[env].enclosing, name, Some(distance[1] - 1))
              ELSE [panic |-> TRUE, val |-> None]
    ELSE IF st.frames[env].enclosing # 0
         THEN get_internal(st, st.frames[env].enclosing, name, distance)
         ELSE [panic |-> FALSE, val |-> lookup(st, env, name)]

get(st, env, name, expr_id) == get_internal(st, env, name, get_distance(st, expr_id))

RECURSIVE assign_internal(_, _, _, _, _)

\* assign_internal that reports success whenever it stores at the root.
assign_internal_always_true(st, env, name, value, distance) ==
    IF distance # None
    THEN IF distance[1] = 0
         THEN [panic |-> FALSE, ok |-> TRUE, st |-> define(st, env, name, value)]
         ELSE IF st.frames[env].enclosing # 0
              THEN LET r == assign_internal(st, st.frames[env].enclosing, name, value,
                                            Some(distance[1] - 1))
                   IN  [r EXCEPT !.ok = TRUE]
              ELSE [panic |-> TRUE, ok |-> FALSE, st |-> st]
    ELSE IF st.frames[env].enclosing # 0
         THEN assign_internal(st, st.frames[env].enclosing, name, value, None)
         ELSE [panic |-> FALSE, ok |-> TRUE, st |-> define(st, env, name, value)]

assign_internal(st, env, name, value, distance) ==
    IF distance # None
    THEN IF distance[1] = 0
         THEN [panic |-> FALSE, ok |-> TRUE, st |-> define(st, env, name, value)]
         ELSE IF st.frames[env].enclosing # 0
              THEN LET r == assign_internal(st, st.frames[env].enclosing, name, value,
                                            Some(distance[1] - 1))
                   IN  [r EXCEPT !.ok = TRUE]
              ELSE [panic |-> TRUE, ok |-> FALSE, st |-> st]
    ELSE IF st.frames[env].enclosing # 0
         THEN assign_internal(st, st.frames[env].enclosing, name, value, None)
         ELSE \* HashMap::insert: the value is stored; Some(old) tells it replaced one
              [panic |-> FALSE, ok |-> Has(st.frames[env].values, name),
               st |-> define(st, env, name, value)]

assign_global(st, env, name, value) == assign_internal(st, env, name, value, None)

assign(st, env, name, value, expr_id) ==
    assign_internal(st, env, name, value, get_distance(st, expr_id))

\* The instance a `super` expression binds: `this` sits one frame nearer than
\* `super`, whose distance the resolver recorded for the node.
get_this_instance(st, env, expr_id) ==
    LET distance == get_distance(st, expr_id)
    IN  IF distance = None \/ distance[1] = 0 THEN [panic |-> TRUE, val |-> None]
        ELSE get_internal(st, env, "this", Some(distance[1] - 1))

(***************************************************************************)
(* Dropping frames.  A frame lives as long as an Environment clone holds   *)
(* its Rc; when a block or a call ends, the frames it made that no stored  *)
(* value, instance field or result refers to are gone.                     *)
(***************************************************************************)
Max(a, b) == IF a >= b THEN a ELSE b

RECURSIVE MaxOver(_)
MaxOver(ns) == IF ns = <<>> THEN 0 ELSE Max(Head(ns), MaxOver(Tail(ns)))

\* The newest frame a value holds.
RECURSIVE FrameOf(_)
FrameOf(v) ==
    CASE v.t = "Function" -> v.fun.parent_env
      [] v.t = "Class" ->
            LET names == DOMAIN v.methods
                top == IF names = {} THEN 0
                       ELSE LET n == CHOOSE n \in names :
                                       \A o \in names :
                                          v.methods[o].parent_env <= v.methods[n].parent_env
                            IN  v.methods[n].parent_env
            IN  Max(top, IF v.superclass = None THEN 0 ELSE FrameOf(v.superclass[1]))
      [] v.t = "Instance" -> FrameOf(v.class)
      [] OTHER -> 0

Held(st, f, roots) ==
    \/ \E i \in 1..(f - 1) : \E n \in DOMAIN st.frames[i].values :
          FrameOf(st.frames[i].values[n]) >= f
    \/ \E i \in 1..Len(st.insts) : \E j \in 1..Len(st.insts[i]) :
          FrameOf(st.insts[i][j].value) >= f
    \/ \E i \in 1..Len(roots) : FrameOf(roots[i]) >= f

RECURSIVE drop_frames(_, _, _)
drop_frames(st, mark, roots) ==
    IF Len(st.frames) > mark /\ ~Held(st, Len(st.frames), roots)
    THEN drop_frames([st EXCEPT !.frames = SubSeq(@, 1, Len(@) - 1)], mark, roots)
    ELSE st

(***************************************************************************)
(* Truthiness (Literal::is_falsey, Literal::is_truthy): a Literal, or the  *)
(* panic of the Class, Instance and Callable arms.                         *)
(***************************************************************************)
Panics == [panic |-> TRUE, val |-> Nil]

NoPanic(v) == [panic |-> FALSE, val |-> v]

is_falsey(v) ==
    CASE v.t = "Number" -> NoPanic(IF v.n = 0 THEN True ELSE False)
      [] v.t = "String" -> NoPanic(IF v.s = <<>> THEN True ELSE False)
      [] v.t = "True" -> NoPanic(False)
      [] v.t = "False" -> NoPanic(True)
      [] v.t = "Nil" -> NoPanic(False)
      [] v.t \in {"Class", "Instance", "Function", "NativeFunction"} -> Panics

\* is_truthy with Nil not truthy.
is_truthy_nil_false(v) ==
    CASE v.t = "Number" -> NoPanic(IF v.n = 0 THEN False ELSE True)
      [] v.t = "String" -> NoPanic(IF v.s = <<>> THEN False ELSE True)
      [] v.t = "True" -> NoPanic(True)
      [] v.t \in {"False", "Nil"} -> NoPanic(False)
      [] v.t \in {"Class", "Instance", "Function", "NativeFunction"} -> Panics

is_truthy(v) ==
    CASE v.t = "Number" -> NoPanic(IF v.n = 0 THEN False ELSE True)
      [] v.t = "String" -> NoPanic(IF v.s = <<>> THEN False ELSE True)
      [] v.t = "True" -> NoPanic(True)
      [] v.t = "False" -> NoPanic(False)
      [] v.t = "Nil" -> NoPanic(True)
      [] v.t \in {"Class", "Instance", "Function", "NativeFunction"} -> Panics

(***************************************************************************)
(* Equality of values: impl PartialEq for Literal.                         *)
(***************************************************************************)
\* Equality that compares two functions field by field, captured environment
\* included.
literal_eq_whole_function(a, b) ==
    CASE a.t = "Number" /\ b.t = "Number" -> a.n = b.n
      [] a.t = "Function" /\ b.t = "Function" -> a.fun = b.fun
      [] a.t = "NativeFunction" /\ b.t = "NativeFunction" ->
            a.name = b.name /\ a.arity = b.arity
      [] a.t = "String" /\ b.t = "String" -> a.s = b.s
      [] a.t = "True" /\ b.t = "True" -> TRUE
      [] a.t = "False" /\ b.t = "False" -> TRUE
      [] a.t = "Nil" /\ b.t = "Nil" -> TRUE
      [] OTHER -> FALSE

literal_eq(a, b) ==
    CASE a.t = "Number" /\ b.t = "Number" -> a.n = b.n
      [] a.t = "Function" /\ b.t = "Function" ->
            a.fun.name = b.fun.name /\ a.fun.arity = b.fun.arity
      [] a.t = "NativeFunction" /\ b.t = "NativeFunction" ->
            a.name = b.name /\ a.arity = b.arity
      [] a.t = "String" /\ b.t = "String" -> a.s = b.s
      [] a.t = "True" /\ b.t = "True" -> TRUE
      [] a.t = "False" /\ b.t = "False" -> TRUE
      [] a.t = "Nil" /\ b.t = "Nil" -> TRUE
      [] OTHER -> FALSE

(***************************************************************************)
(* Results.  Expr::evaluate yields [kind, val, st, msg] and                *)
(* Interpreter::interpret yields [kind, int, st, msg], where `int` is the  *)
(* interpreter the call ran on (its environment and its specials) as the   *)
(* call leaves it.  kind is "ok", "err" (the Err a `?` propagates),        *)
(* "panic" (the process aborts), "diverge" (a loop whose state repeats: it *)
(* never ends) or "unfinished" (the model stopped following a loop).       *)
(***************************************************************************)
Ok(v, st) == [kind |-> "ok", val |-> v, st |-> st, msg |-> ""]

Err(msg, st) == [kind |-> "err", val |-> Nil, st |-> st, msg |-> msg]

Panic(msg, st) == [kind |-> "panic", val |-> Nil, st |-> st, msg |-> msg]

SOk(int, st) == [kind |-> "ok", int |-> int, st |-> st, msg |-> ""]

SErr(msg, int, st) == [kind |-> "err", int |-> int, st |-> st, msg |-> msg]

\* An expression's failure, leaving the statement that evaluated it.
AsStmt(r, int) == [kind |-> r.kind, int |-> int, st |-> r.st, msg |-> r.msg]

\* A statement's failure, leaving the expression (a call) that ran it.
AsExpr(r) == [kind |-> r.kind, val |-> Nil, st |-> r.st, msg |-> r.msg]

Interpreter_with_env(env) == [environment |-> env, specials |-> EmptyMap]

make_function(int, fn_stmt) ==
    FunctionImpl(fn_stmt.name, fn_stmt.params, fn_stmt.body, int.environment)

\* A method bound to an instance: a clone whose parent_env is a new frame
\* around the method's, with `this` defined in it.
bind_this(st, method, instance) ==
    LET e == enclose(st, method.parent_env)
    IN  [st |-> define(e.st, e.env, "this", instance),
         fun |-> [method EXCEPT !.parent_env = e.env]]

Reverse(seq) == [i \in 1..Len(seq) |-> seq[Len(seq) + 1 - i]]

RECURSIVE replace_all(_, _)
replace_all(string, args) ==
    IF args = <<>> THEN string
    ELSE replace_all(replacen(string, to_string(Head(args))), Tail(args))

\* Byte order of the characters the programs use.
Alphabet == <<"0", "1", "2", "3", "4", "5", "6", "7", "8", "9", "A", "B", "a", "b", "x">>

Code(c) == CHOOSE i \in 1..Len(Alphabet) : Alphabet[i] = c

RECURSIVE str_lt(_, _)
str_lt(l, r) ==
    IF r = <<>> THEN FALSE
    ELSE IF l = <<>> THEN TRUE
    ELSE IF Head(l) = Head(r) THEN str_lt(Tail(l), Tail(r))
    ELSE Code(Head(l)) < Code(Head(r))

\* f64 division, on the integers the model's Numbers are: the quotient when
\* it is one, and otherwise a Number that equals no integer.
divide(l, r) ==
    IF r # 0 /\ l % r = 0 THEN Number(l \div r)
    ELSE [t |-> "Number", n |-> l \div (IF r = 0 THEN 1 ELSE r), over |-> <<l, r>>]

\* The match of Expr::Binary on (left, operator, right).
binary(l, op, r, st) ==
    CASE l.t = "Number" /\ r.t = "Number" /\ op = "Minus" -> Ok(Number(l.n - r.n), st)
      [] l.t = "Number" /\ r.t = "Number" /\ op = "Slash" -> Ok(divide(l.n, r.n), st)
      [] l.t = "Number" /\ r.t = "Number" /\ op = "Star" -> Ok(Number(l.n * r.n), st)
      [] l.t = "Number" /\ r.t = "Number" /\ op = "Plus" -> Ok(Number(l.n + r.n), st)
      [] l.t = "String" /\ r.t = "String" /\ op = "Plus" -> Ok(String(l.s \o r.s), st)
      [] l.t = "Number" /\ r.t = "String" /\ op = "Plus" ->
            Ok(String(NumToString(l.n) \o r.s), st)
      [] l.t = "String" /\ r.t = "Number" /\ op = "Plus" ->
            Ok(String(l.s \o NumToString(r.n)), st)
      [] l.t = "Number" /\ r.t = "Number" /\ op = "Greater" -> Ok(from_bool(l.n > r.n), st)
      [] l.t = "Number" /\ r.t = "Number" /\ op = "GreaterEqual" ->
            Ok(from_bool(l.n >= r.n), st)
      [] l.t = "Number" /\ r.t = "Number" /\ op = "Less" -> Ok(from_bool(l.n < r.n), st)
      [] l.t = "Number" /\ r.t = "Number" /\ op = "LessEqual" ->
            Ok(from_bool(l.n <= r.n), st)
      [] l.t = "String" /\ r.t = "String" /\ op = "Greater" ->
            Ok(from_bool(str_lt(r.s, l.s)), st)
      [] l.t = "String" /\ r.t = "String" /\ op = "GreaterEqual" ->
            Ok(from_bool(~str_lt(l.s, r.s)), st)
      [] l.t = "String" /\ r.t = "String" /\ op = "Less" ->
            Ok(from_bool(str_lt(l.s, r.s)), st)
      [] l.t = "String" /\ r.t = "String" /\ op = "LessEqual" ->
            Ok(from_bool(~str_lt(r.s, l.s)), st)
      [] op = "EqualEqual" -> Ok(from_bool(literal_eq(l, r)), st)
      [] op = "BangEqual" -> Ok(from_bool(~literal_eq(l, r)), st)
      [] OTHER -> Err("TypeError", st)

\* The match of Expr::Unary on (right, operator).
unary(right, op, st) ==
    CASE right.t = "Number" /\ op = "Minus" -> Ok(Number(-right.n), st)
      [] right.t # "Number" /\ op = "Minus" -> Err("TypeError", st)
      [] op = "Bang" ->
            IF is_falsey(right).panic THEN Panic("falsey", st)
            ELSE Ok(is_falsey(right).val, st)
      [] OTHER -> Err("TypeError", st)

\* The field search of Expr::Get and Expr::Set: the first index holding name.
field_index(fields, name) ==
    LET hits == {i \in 1..Len(fields) : fields[i].name = name}
    IN  IF hits = {} THEN 0 ELSE CHOOSE i \in hits : \A j \in hits : i <= j

(***************************************************************************)
(* Expr::evaluate, run_function (expr.rs) and Interpreter::interpret       *)
(* (interpreter.rs).                                                       *)
(***************************************************************************)
\* Expr::evaluate and the statement arms of Interpreter::interpret call each
\* other through every nesting of the program; dispatch is the one point all
\* of these calls go through.
RECURSIVE dispatch(_, _, _, _)
RECURSIVE evaluate_args(_, _, _)
RECURSIVE run_body(_, _, _)
RECURSIVE interpret(_, _, _)
RECURSIVE while_loop(_, _, _, _, _)
RECURSIVE make_methods(_, _, _)

\* expr.evaluate(environment)
evaluate(expr, environment, st) == dispatch("evaluate", expr, environment, st)

\* one turn of `for stmt in stmts { match stmt { .. } }`
execute(int, stmt, st) == dispatch("execute", stmt, int, st)

\* for arg in arguments { vals.push(arg.evaluate(env)?) }
evaluate_args(arguments, environment, st) ==
    IF arguments = <<>> THEN [kind |-> "ok", vals |-> <<>>, st |-> st, msg |-> ""]
    ELSE LET a == evaluate(Head(arguments), environment, st)
             r == evaluate_args(Tail(arguments), environment, a.st)
         IN  IF a.kind # "ok"
             THEN [kind |-> a.kind, vals |-> <<>>, st |-> a.st, msg |-> a.msg]
             ELSE [r EXCEPT !.vals = <<a.val>> \o @]

\* Expr::Get that looks a method up in the instance's own class only.
evaluate_get_own_class(expr, environment, st) ==
    LET o == evaluate(expr.object, environment, st)
        obj_value == o.val
        fields == o.st.insts[obj_value.fields]
        idx == field_index(fields, expr.name)
        class == obj_value.class
    IN  IF o.kind # "ok" THEN o
        ELSE IF obj_value.t # "Instance" THEN Err("TypeError", o.st)
        ELSE IF idx # 0 THEN Ok(fields[idx].value, o.st)
        ELSE IF Has(class.methods, expr.name)
             THEN LET b == bind_this(o.st, class.methods[expr.name], obj_value)
                  IN  Ok(Callable(b.fun), b.st)
        ELSE Err("UndefinedProperty", o.st)

\* Expr::Get
\* Expr::Get that looks at the methods of the class before the fields.
evaluate_get_methods_first(expr, environment, st) ==
    LET o == evaluate(expr.object, environment, st)
        obj_value == o.val
        fields == o.st.insts[obj_value.fields]
        idx == field_index(fields, expr.name)
        class == obj_value.class
    IN  IF o.kind # "ok" THEN o
        ELSE IF obj_value.t # "Instance" THEN Err("TypeError", o.st)
        ELSE IF Has(class.methods, expr.name)
             THEN LET b == bind_this(o.st, class.methods[expr.name], obj_value)
                  IN  Ok(Callable(b.fun), b.st)
        ELSE IF idx # 0 THEN Ok(fields[idx].value, o.st)
        ELSE IF class.superclass # None /\ Has(class.superclass[1].methods, expr.name)
             THEN LET b == bind_this(o.st, class.superclass[1].methods[expr.name],
                                     obj_value)
                  IN  Ok(Callable(b.fun), b.st)
        ELSE Err("UndefinedProperty", o.st)

evaluate_get(expr, environment, st) ==
    LET o == evaluate(expr.object, environment, st)
        obj_value == o.val
        fields == o.st.insts[obj_value.fields]
        idx == field_index(fields, expr.name)
        class == obj_value.class
    IN  IF o.kind # "ok" THEN o
        ELSE IF obj_value.t # "Instance" THEN Err("TypeError", o.st)
        ELSE IF idx # 0 THEN Ok(fields[idx].value, o.st)
        ELSE IF Has(class.methods, expr.name)
             THEN LET b == bind_this(o.st, class.methods[expr.name], obj_value)
                  IN  Ok(Callable(b.fun), b.st)
        ELSE IF class.superclass # None /\ Has(class.superclass[1].methods, expr.name)
             THEN LET b == bind_this(o.st, class.superclass[1].methods[expr.name],
                                     obj_value)
                  IN  Ok(Callable(b.fun), b.st)
        ELSE Err("UndefinedProperty", o.st)

\* Expr::Set that pushes a new entry on every write.
evaluate_set_always_pushes(expr, environment, st) ==
    LET o == evaluate(expr.object, environment, st)
        v == evaluate(expr.value, environment, o.st)
    IN  IF o.kind # "ok" THEN o
        ELSE IF o.val.t # "Instance" THEN Err("TypeError", o.st)
        ELSE IF v.kind # "ok" THEN v
        ELSE Ok(Nil, [v.st EXCEPT !.insts[o.val.fields] =
                                     Append(@, [name |-> expr.name, value |-> v.val])])

\* Expr::Set
evaluate_set(expr, environment, st) ==
    LET o == evaluate(expr.object, environment, st)
        v == evaluate(expr.value, environment, o.st)
        fields == v.st.insts[o.val.fields]
        idx == field_index(fields, expr.name)
    IN  IF o.kind # "ok" THEN o
        ELSE IF o.val.t # "Instance" THEN Err("TypeError", o.st)
        ELSE IF v.kind # "ok" THEN v
        ELSE IF idx # 0
             THEN Ok(Nil, [v.st EXCEPT !.insts[o.val.fields][idx].value = v.val])
             ELSE Ok(Nil, [v.st EXCEPT !.insts[o.val.fields] =
                                          Append(@, [name |-> expr.name, value |-> v.val])])

\* for (i, val) in args_val { fun_env.define(params[i], val) }
RECURSIVE define_params(_, _, _, _)
define_params(st, env, params, vals) ==
    IF vals = <<>> THEN st
    ELSE define_params(define(st, env, Head(params), Head(vals)), env,
                       Tail(params), Tail(vals))

\* The loop of run_function over the body: one interpret call per statement
\* on the same interpreter, the "return" special probed after each.
run_body(int, body, st) ==
    IF body = <<>> THEN Ok(Nil, st)
    ELSE LET r == interpret(int, <<Head(body)>>, st)
         IN  IF r.kind # "ok" THEN AsExpr(r)
             ELSE IF Has(r.int.specials, "return") THEN Ok(r.int.specials["return"], r.st)
             ELSE run_body(r.int, Tail(body), r.st)

\* run_function that encloses the caller's environment (dynamic scope)
\* instead of the function's parent_env.
run_function_in_caller(fun, arguments, eval_env, st) ==
    LET a == evaluate_args(arguments, eval_env, st)
        e == enclose(a.st, eval_env)
        st1 == define_params(e.st, e.env, fun.params, a.vals)
    IN  IF Len(arguments) # fun.arity THEN Err("ArityMismatch", st)
        ELSE IF a.kind # "ok" THEN [kind |-> a.kind, val |-> Nil, st |-> a.st, msg |-> a.msg]
        ELSE run_body(Interpreter_with_env(e.env), fun.body, st1)

\* run_function with the arity test moved after the evaluation of the
\* arguments.
run_function_arguments_first(fun, arguments, eval_env, st) ==
    LET a == evaluate_args(arguments, eval_env, st)
        e == enclose(a.st, fun.parent_env)
        st1 == define_params(e.st, e.env, fun.params, a.vals)
    IN  IF a.kind # "ok" THEN [kind |-> a.kind, val |-> Nil, st |-> a.st, msg |-> a.msg]
        ELSE IF Len(arguments) # fun.arity THEN Err("ArityMismatch", a.st)
        ELSE run_body(Interpreter_with_env(e.env), fun.body, st1)

run_function(fun, arguments, eval_env, st) ==
    LET a == evaluate_args(arguments, eval_env, st)
        e == enclose(a.st, fun.parent_env)
        st1 == define_params(e.st, e.env, fun.params, a.vals)
    IN  IF Len(arguments) # fun.arity THEN Err("ArityMismatch", st)
        ELSE IF a.kind # "ok" THEN [kind |-> a.kind, val |-> Nil, st |-> a.st, msg |-> a.msg]
        ELSE run_body(Interpreter_with_env(e.env), fun.body, st1)

\* Expr::Call on a Class, yielding what `init` returned instead of the
\* instance.
call_class_yields_init(callable, arguments, environment, st) ==
    LET instance == Instance(callable, Len(st.insts) + 1)
        st1 == [st EXCEPT !.insts = Append(@, <<>>)]
        b == bind_this(st1, callable.methods["init"], instance)
    IN  IF Has(callable.methods, "init")
        THEN IF callable.methods["init"].arity # Len(arguments)
             THEN Err("ArityMismatch", st1)
             ELSE run_function(b.fun, arguments, environment, b.st)
        ELSE Ok(instance, st1)

\* Expr::Call, the callee being a Class
call_class(callable, arguments, environment, st) ==
    LET instance == Instance(callable, Len(st.insts) + 1)
        st1 == [st EXCEPT !.insts = Append(@, <<>>)]
        b == bind_this(st1, callable.methods["init"], instance)
        r == run_function(b.fun, arguments, environment, b.st)
    IN  IF Has(callable.methods, "init")
        THEN IF callable.methods["init"].arity # Len(arguments)
             THEN Err("ArityMismatch", st1)
             ELSE IF r.kind # "ok" THEN r ELSE Ok(instance, r.st)
        ELSE Ok(instance, st1)

\* Expr::Call
evaluate_call(expr, environment, st) ==
    LET c == evaluate(expr.callee, environment, st)
        callable == c.val
        a == evaluate_args(expr.arguments, environment, c.st)
        r == CASE callable.t = "Function" ->
                    run_function(callable.fun, expr.arguments, environment, c.st)
               [] callable.t = "NativeFunction" ->
                    IF a.kind # "ok" THEN [kind |-> a.kind, val |-> Nil, st |-> a.st,
                                           msg |-> a.msg]
                    ELSE Ok(clock_impl(a.vals), a.st)
               [] callable.t = "Class" ->
                    call_class(callable, expr.arguments, environment, c.st)
               [] OTHER -> Err("NotCallable", c.st)
    IN  IF c.kind # "ok" THEN c
        ELSE IF r.kind # "ok" THEN r
        \* the frames of the finished call that nothing holds are dropped
        ELSE [r EXCEPT !.st = drop_frames(r.st, Len(st.frames), <<r.val>>)]

\* Expr::Logical whose `and` yields the left value when it is not truthy.
evaluate_logical_and_yields_left(expr, environment, st) ==
    LET l == evaluate(expr.left, environment, st)
        left_true == is_truthy(l.val)
    IN  IF expr.operator \notin {"Or", "And"} THEN Err("TypeError", st)
        ELSE IF l.kind # "ok" THEN l
        ELSE IF left_true.panic THEN Panic("truthy", l.st)
        ELSE IF expr.operator = "Or"
             THEN IF left_true.val = True THEN l
                  ELSE evaluate(expr.right, environment, l.st)
             ELSE IF left_true.val = False THEN l
                  ELSE evaluate(expr.right, environment, l.st)

\* Expr::Logical
evaluate_logical(expr, environment, st) ==
    LET l == evaluate(expr.left, environment, st)
        left_true == is_truthy(l.val)
    IN  IF expr.operator \notin {"Or", "And"} THEN Err("TypeError", st)
        ELSE IF l.kind # "ok" THEN l
        ELSE IF left_true.panic THEN Panic("truthy", l.st)
        ELSE IF expr.operator = "Or"
             THEN IF left_true.val = True THEN l
                  ELSE evaluate(expr.right, environment, l.st)
             ELSE IF left_true.val = False THEN Ok(False, l.st)
                  ELSE evaluate(expr.right, environment, l.st)

\* Expr::Super
evaluate_super(expr, environment, st) ==
    LET superclass == get(st, environment, "super", expr.id)
        instance == get_this_instance(st, environment, expr.id)
        b == bind_this(st, superclass.val[1].methods[expr.method], instance.val[1])
    IN  IF superclass.panic \/ superclass.val = None THEN Panic("super", st)
        ELSE IF instance.panic \/ instance.val = None THEN Panic("this", st)
        ELSE IF superclass.val[1].t # "Class" THEN Panic("superclass", st)
        ELSE IF Has(superclass.val[1].methods, expr.method)
             THEN Ok(Callable(b.fun), b.st)
             ELSE Err("UndefinedMethod", st)

\* The `match self` of Expr::evaluate
evaluate_match(expr, environment, st) ==
    CASE expr.k = "AnonFunction" ->
            Ok(Callable(FunctionImpl("anon_function", expr.arguments, expr.body,
                                     environment)), st)
      [] expr.k = "Get" -> evaluate_get(expr, environment, st)
      [] expr.k = "Set" -> evaluate_set(expr, environment, st)
      [] expr.k = "Grouping" -> evaluate(expr.expression, environment, st)
      [] expr.k = "Literal" -> Ok(expr.value, st)
      [] expr.k = "Variable" ->
            LET g == get(st, environment, expr.name, expr.id)
            IN  IF g.panic THEN Panic("depth", st)
                ELSE IF g.val # None THEN Ok(g.val[1], st)
                ELSE Err("UndefinedVariable", st)
      [] expr.k = "Assign" ->
            LET v == evaluate(expr.value, environment, st)
                a == assign(v.st, environment, expr.name, v.val, expr.id)
            IN  IF v.kind # "ok" THEN v
                ELSE IF a.panic THEN Panic("depth", v.st)
                ELSE IF a.ok THEN Ok(v.val, a.st)
                ELSE Err("UndefinedVariable", a.st)
      [] expr.k = "Unary" ->
            LET r == evaluate(expr.right, environment, st)
            IN  IF r.kind # "ok" THEN r ELSE unary(r.val, expr.operator, r.st)
      [] expr.k = "Call" -> evaluate_call(expr, environment, st)
      [] expr.k = "Logical" -> evaluate_logical(expr, environment, st)
      [] expr.k = "This" ->
            LET g == get(st, environment, "this", expr.id)
            IN  IF g.panic \/ g.val = None THEN Panic("this", st) ELSE Ok(g.val[1], st)
      [] expr.k = "Binary" ->
            LET l == evaluate(expr.left, environment, st)
                r == evaluate(expr.right, environment, l.st)
            IN  IF l.kind # "ok" THEN l
                ELSE IF r.kind # "ok" THEN r
                ELSE binary(l.val, expr.operator, r.val, r.st)
      [] expr.k = "Super" -> evaluate_super(expr, environment, st)

\* for method in methods { methods_map.insert(name, make_function(method)) }
make_methods(int, methods, methods_map) ==
    IF methods = <<>> THEN methods_map
    ELSE make_methods(int, Tail(methods),
                      Insert(methods_map, Head(methods).name,
                             make_function(int, Head(methods))))

\* Stmt::Class
execute_class(int, stmt, st) ==
    LET has_super == stmt.superclass # None
        s == evaluate(stmt.superclass[1], int.environment, st)
        st0 == IF has_super THEN s.st ELSE st
        superclass_value == IF has_super THEN Some(s.val) ELSE None
        st1 == define(st0, int.environment, stmt.name, Nil)
        e == enclose(st1, int.environment)
        int1 == [int EXCEPT !.environment = e.env]
        st2 == IF has_super THEN define(e.st, e.env, "super", s.val) ELSE e.st
        class == Class(stmt.name, make_methods(int1, stmt.methods, EmptyMap),
                       superclass_value)
        a == assign_global(st2, int1.environment, stmt.name, class)
    IN  IF has_super /\ s.kind # "ok" THEN AsStmt(s, int)
        ELSE IF has_super /\ s.val.t # "Class" THEN SErr("TypeError", int, s.st)
        ELSE IF ~a.ok THEN SErr("ClassDefinitionFailed", int1, a.st)
        ELSE SOk([int1 EXCEPT !.environment = a.st.frames[int1.environment].enclosing],
                 a.st)

\* Stmt::Print
execute_print(int, stmt, st) ==
    LET v == evaluate(stmt.expression, int.environment, st)
        a == evaluate_args(Reverse(stmt.arguments), int.environment, v.st)
        string == replace_all(to_string(v.val), Reverse(a.vals))
    IN  IF v.kind # "ok" THEN AsStmt(v, int)
        ELSE IF a.kind # "ok" THEN AsStmt(a, int)
        ELSE SOk(int, [a.st EXCEPT !.out = Append(@, string)])

\* Stmt::Block
\* Stmt::Block that runs its statements in the enclosing environment's own
\* frame instead of a new one.
execute_block_same_frame(int, stmt, st) ==
    LET r == interpret(int, stmt.statements, st)
    IN  [r EXCEPT !.int.environment = int.environment]

\* Stmt::Block that puts the old environment back only when the block's
\* statements succeeded.
execute_block_restores_on_success(int, stmt, st) ==
    LET e == enclose(st, int.environment)
        r == interpret([int EXCEPT !.environment = e.env], stmt.statements, e.st)
        restored == [r EXCEPT !.int.environment = int.environment]
        roots == IF Has(r.int.specials, "return") THEN <<r.int.specials["return"]>>
                 ELSE <<>>
    IN  IF r.kind # "ok" THEN r
        ELSE [restored EXCEPT !.st = drop_frames(r.st, Len(st.frames), roots)]

execute_block(int, stmt, st) ==
    LET e == enclose(st, int.environment)
        r == interpret([int EXCEPT !.environment = e.env], stmt.statements, e.st)
        restored == [r EXCEPT !.int.environment = int.environment]
        roots == IF Has(r.int.specials, "return") THEN <<r.int.specials["return"]>>
                 ELSE <<>>
    IN  IF r.kind # "ok" THEN restored
        \* the block's frame is dropped with it unless a value holds it
        ELSE [restored EXCEPT !.st = drop_frames(r.st, Len(st.frames), roots)]

\* The `while` of Stmt::WhileStmt, entered with the condition's value.
while_loop(int, stmt, st, flag, n) ==
    LET t == is_truthy(flag)
        b == interpret(int, <<stmt.body>>, st)
        c == evaluate(stmt.condition, b.int.environment, b.st)
    IN  IF t.panic THEN [kind |-> "panic", int |-> int, st |-> st, msg |-> "truthy"]
        ELSE IF t.val # True THEN SOk(int, st)
        ELSE IF b.kind # "ok" THEN b
        ELSE IF c.kind # "ok" THEN AsStmt(c, b.int)
        \* the loop is back where it was: it goes round for ever
        ELSE IF b.int = int /\ c.st = st /\ c.val = flag
             THEN [kind |-> "diverge", int |-> int, st |-> st, msg |-> ""]
        ELSE IF n >= MaxIter
             THEN [kind |-> "unfinished", int |-> b.int, st |-> c.st, msg |-> ""]
        ELSE while_loop(b.int, stmt, c.st, c.val, n + 1)

\* One turn of the `for stmt in stmts` of interpret: the match on the statement.
execute_match(int, stmt, st) ==
    CASE stmt.k = "Expression" ->
            LET r == evaluate(stmt.expression, int.environment, st)
            IN  IF r.kind # "ok" THEN AsStmt(r, int) ELSE SOk(int, r.st)
      [] stmt.k = "Print" -> execute_print(int, stmt, st)
      [] stmt.k = "Var" ->
            LET r == evaluate(stmt.initializer, int.environment, st)
            IN  IF r.kind # "ok" THEN AsStmt(r, int)
                ELSE SOk(int, define(r.st, int.environment, stmt.name, r.val))
      [] stmt.k = "Block" -> execute_block(int, stmt, st)
      [] stmt.k = "IfStmt" ->
            LET c == evaluate(stmt.condition, int.environment, st)
                t == is_truthy(c.val)
            IN  IF c.kind # "ok" THEN AsStmt(c, int)
                ELSE IF t.panic
                     THEN [kind |-> "panic", int |-> int, st |-> c.st, msg |-> "truthy"]
                ELSE IF t.val = True THEN interpret(int, <<stmt.then_branch>>, c.st)
                ELSE interpret(int, stmt.else_branch, c.st)
      [] stmt.k = "WhileStmt" ->
            LET c == evaluate(stmt.condition, int.environment, st)
            IN  IF c.kind # "ok" THEN AsStmt(c, int)
                ELSE while_loop(int, stmt, c.st, c.val, 1)
      [] stmt.k = "Function" ->
            SOk(int, define(st, int.environment, stmt.name,
                            Callable(make_function(int, stmt))))
      [] stmt.k = "ReturnStmt" ->
            LET r == evaluate(stmt.value[1], int.environment, st)
            IN  IF stmt.value = None
                THEN SOk([int EXCEPT !.specials = Insert(@, "return", Nil)], st)
                ELSE IF r.kind # "ok" THEN AsStmt(r, int)
                ELSE SOk([int EXCEPT !.specials = Insert(@, "return", r.val)], r.st)
      [] stmt.k = "Class" -> execute_class(int, stmt, st)

dispatch(what, node, ctx, st) ==
    IF what = "evaluate" THEN evaluate_match(node, ctx, st)
    ELSE execute_match(ctx, node, st)

interpret(int, stmts, st) ==
    IF stmts = <<>> THEN SOk(int, st)
    ELSE LET r == execute(int, Head(stmts), st)
         IN  IF r.kind # "ok" THEN r ELSE interpret(r.int, Tail(stmts), r.st)

(***************************************************************************)
(* Source texts.  A line of input is given as the syntax tree the grammar  *)
(* of parser.rs yields for it; the shorthands below write such trees.      *)
(***************************************************************************)
Num(x) == Literal(Number(x))

Str(chars) == Literal(String(chars))

V(name) == Variable(name)

Ret(e) == ReturnStmt(Some(e))

Show(e) == PrintStmt(e, <<>>)

CallV(name, args) == Call(Variable(name), args)

Vals == [i \in 1..MaxVal |-> i]

\* The pairs <<as[i], bs[j]>>, in order.
Cross(as, bs) ==
    [i \in 1..(Len(as) * Len(bs)) |->
        <<as[((i - 1) \div Len(bs)) + 1], bs[((i - 1) % Len(bs)) + 1]>>]

RECURSIVE Flatten(_)
Flatten(seqs) == IF seqs = <<>> THEN <<>> ELSE Head(seqs) \o Flatten(Tail(seqs))

\* A session: what it is (tag), its parameters (p) and the lines typed.
Session(tag, p, lines) == [tag |-> tag, p |-> p, lines |-> lines]

\* `fun f() { NEST { return v; print("x"); return v + 1; } print("y"); return 0; }
\*  print(f());` with NEST one of `{..}`, `if (true) {..}`, `while (true) {..}`,
\* and "single": `if (true) return v;` in place of the nested block.
SrcReturnNested(nest, v) ==
    LET inner == Block(<<Ret(Num(v)), Show(Str(<<"x">>)), Ret(Num(v + 1))>>)
        nested == CASE nest = "block" -> inner
                    [] nest = "if" -> IfStmt(Literal(True), inner, None)
                    [] nest = "while" -> WhileStmt(Literal(True), inner)
                    [] nest = "single" -> IfStmt(Literal(True), Ret(Num(v)), None)
    IN  <<Function("f", <<>>, <<nested, Show(Str(<<"y">>)), Ret(Num(0))>>),
          Show(CallV("f", <<>>))>>

\* `fun f() { while (true) { return v; } } print(f());`, and without braces
SrcReturnWhile(braced, v) ==
    LET body == IF braced = "braced" THEN Block(<<Ret(Num(v))>>) ELSE Ret(Num(v))
    IN  <<Function("f", <<>>, <<WhileStmt(Literal(True), body)>>),
          Show(CallV("f", <<>>))>>

\* `fun make() { var n = start; fun inc() { n = n + 1; return n; } return inc; }
\*  var c = make(); print(c()); print(c());
\*  { var n = other; print(c()); print(n); }
\*  fun g(n) { return c(); } print(g(other));
\*  var d = make(); print(d()); print(c());`
SrcCounter(start, other) ==
    <<Function("make", <<>>,
               <<Var("n", Num(start)),
                 Function("inc", <<>>,
                          <<Expression(Assign("n", Binary(V("n"), "Plus", Num(1)))),
                            Ret(V("n"))>>),
                 Ret(V("inc"))>>),
      Var("c", CallV("make", <<>>)),
      Show(CallV("c", <<>>)),
      Show(CallV("c", <<>>)),
      Block(<<Var("n", Num(other)), Show(CallV("c", <<>>)), Show(V("n"))>>),
      Function("g", <<"n">>, <<Ret(CallV("c", <<>>))>>),
      Show(CallV("g", <<Num(other)>>)),
      Var("d", CallV("make", <<>>)),
      Show(CallV("d", <<>>)),
      Show(CallV("c", <<>>))>>

\* `var x = a; fun rd() { return x; } fun wr() { x = x + 1; }
\*  { var x = b; wr(); print(rd()); print(x); } print(x);`
SrcGlobalCapture(a, b) ==
    <<Var("x", Num(a)),
      Function("rd", <<>>, <<Ret(V("x"))>>),
      Function("wr", <<>>, <<Expression(Assign("x", Binary(V("x"), "Plus", Num(1))))>>),
      Block(<<Var("x", Num(b)), Expression(CallV("wr", <<>>)),
              Show(CallV("rd", <<>>)), Show(V("x"))>>),
      Show(V("x"))>>

\* `var a = outer; { var a = inner; print(a); a = a + 10; print(a); } print(a);`
\* at top level, inside a block, or as the body of a function that is called
SrcShadow(place, outer, inner) ==
    LET body == <<Var("a", Num(outer)),
                  Block(<<Var("a", Num(inner)), Show(V("a")),
                          Expression(Assign("a", Binary(V("a"), "Plus", Num(10)))),
                          Show(V("a"))>>),
                  Show(V("a"))>>
    IN  CASE place = "global" -> body
          [] place = "block" -> <<Block(body)>>
          [] place = "function" ->
                <<Function("f", <<>>, body), Expression(CallV("f", <<>>))>>

\* `class A { init(x) { this.x = x; } } class B : A {} var b = B(v, ..); print(b.x);`
\* with nargs arguments
SrcInheritInit(v, nargs) ==
    <<ClassStmt("A", <<Function("init", <<"x">>,
                                <<Expression(Set(This, "x", V("x")))>>)>>, None),
      ClassStmt("B", <<>>, Some(V("A"))),
      Var("b", CallV("B", [i \in 1..nargs |-> Num(v)])),
      Show(Get(V("b"), "x"))>>

\* `class A {}` at top level, in a block, or in the body of a function that is
\* called; then `print(A);`
SrcClassNested(nest) ==
    LET decl == ClassStmt("A", <<>>, None)
    IN  CASE nest = "top" -> <<decl, Show(V("A"))>>
          [] nest = "block" -> <<Block(<<decl>>), Show(V("A"))>>
          [] nest = "function" ->
                <<Function("f", <<>>, <<decl>>), Expression(CallV("f", <<>>)),
                  Show(V("A"))>>

\* `class C { me() { return C; } } print(C().me());`, C with or without a
\* superclass `class A {}`
SrcSelfRef(super) ==
    <<ClassStmt("A", <<>>, None),
      ClassStmt("C", <<Function("me", <<>>, <<Ret(V("C"))>>)>>,
                IF super = "super" THEN Some(V("A")) ELSE None),
      Show(Call(Get(CallV("C", <<>>), "me"), <<>>))>>

\* `class A { greet() { return this.v; } }
\*  class B : A { greet() { return super.greet() + 10; } }   (or `class B : A {}`)
\*  var b = B(); b.v = v; print(b.greet());`
SrcInherit(override, v) ==
    <<ClassStmt("A", <<Function("greet", <<>>, <<Ret(Get(This, "v"))>>)>>, None),
      ClassStmt("B",
                IF override = "override"
                THEN <<Function("greet", <<>>,
                                <<Ret(Binary(Call(Super("greet"), <<>>), "Plus",
                                             Num(10)))>>)>>
                ELSE <<>>,
                Some(V("A"))),
      Var("b", CallV("B", <<>>)),
      Expression(Set(V("b"), "v", Num(v))),
      Show(Call(Get(V("b"), "greet"), <<>>))>>

\* Three lines of a REPL session: `fun f(a) { return a; }`, then
\* `fun g(b) { { b; } }`, then `print(f(v));`
SrcDefF == <<Function("f", <<"a">>, <<Ret(V("a"))>>)>>

SrcDefG == <<Function("g", <<"b">>, <<Block(<<Expression(V("b"))>>)>>)>>

SrcUseF(v) == <<Show(CallV("f", <<Num(v)>>))>>

\* `class A {} fun f() {}` and then a Class, an Instance or a Callable where a
\* truth value is wanted
SrcTruthMisuse(kind, use) ==
    LET val == CASE kind = "Class" -> V("A")
                 [] kind = "Instance" -> CallV("A", <<>>)
                 [] kind = "Callable" -> V("f")
    IN  <<ClassStmt("A", <<>>, None),
          Function("f", <<>>, <<>>),
          CASE use = "if" -> IfStmt(val, Show(Num(1)), None)
            [] use = "while" -> WhileStmt(val, Show(Num(1)))
            [] use = "not" -> Show(Unary("Bang", val))
            [] use = "and" -> Show(Logical(val, "And", Num(1)))
            [] use = "or" -> Show(Logical(val, "Or", Num(1)))>>

Nests == <<"block", "if", "while", "single">>

Places == <<"global", "block", "function">>

TruthKinds == <<"Class", "Instance", "Callable">>

TruthUses == <<"if", "while", "not", "and", "or">>

Sessions(tag, params, Src(_)) ==
    [i \in 1..Len(params) |-> Session(tag, params[i], <<Src(params[i])>>)]

ReturnNestedSessions ==
    LET Src(p) == SrcReturnNested(p[1], p[2])
    IN  Sessions("return_nested", Cross(Nests, Vals), Src)

ReturnWhileSessions ==
    LET Src(p) == SrcReturnWhile(p[1], p[2])
    IN  Sessions("return_while", Cross(<<"braced", "bare">>, Vals), Src)

CounterSessions ==
    LET Src(p) == SrcCounter(p[1], p[2]) IN Sessions("counter", Cross(Vals, Vals), Src)

GlobalCaptureSessions ==
    LET Src(p) == SrcGlobalCapture(p[1], p[2])
    IN  Sessions("global_capture", Cross(Vals, Vals), Src)

ShadowSessions ==
    LET Src(p) == SrcShadow(p[1], p[2][1], p[2][2])
    IN  Sessions("shadow", Cross(Places, Cross(Vals, Vals)), Src)

InheritInitSessions ==
    LET Src(p) == SrcInheritInit(p[1], p[2])
    IN  Sessions("inherit_init", Cross(Vals, <<1, 0, 2>>), Src)

ClassNestedSessions ==
    LET Src(p) == SrcClassNested(p)
    IN  Sessions("class_nested", <<"top", "block", "function">>, Src)

SelfRefSessions ==
    LET Src(p) == SrcSelfRef(p) IN Sessions("self_ref", <<"plain", "super">>, Src)

InheritSessions ==
    LET Src(p) == SrcInherit(p[1], p[2])
    IN  Sessions("inherit", Cross(<<"inherited", "override">>, Vals), Src)

ReplSessions ==
    Flatten([i \in 1..Len(Vals) |->
        <<Session("repl_two", Vals[i], <<SrcDefF, SrcUseF(Vals[i])>>),
          Session("repl_three", Vals[i], <<SrcDefF, SrcDefG, SrcUseF(Vals[i])>>)>>])

TruthMisuseSessions ==
    LET Src(p) == SrcTruthMisuse(p[1], p[2])
    IN  Sessions("truth_misuse", Cross(TruthKinds, TruthUses), Src)

\* `print(L op R);` with L and R a Number, a String, a Boolean or nil
SrcBinary(op, lkind, rkind) ==
    LET lit(kind) == CASE kind = "Number" -> Num(MaxVal)
                       [] kind = "String" -> Str(<<"a">>)
                       [] kind = "Boolean" -> Literal(True)
                       [] kind = "Nil" -> Literal(Nil)
    IN  <<Show(Binary(lit(lkind), op, lit(rkind)))>>

BinaryOps ==
    <<"Minus", "Slash", "Star", "Plus", "Greater", "GreaterEqual", "Less", "LessEqual">>

OperandKinds == <<"Number", "String", "Boolean", "Nil">>

BinarySessions ==
    LET Src(p) == SrcBinary(p[1], p[2][1], p[2][2])
    IN  Sessions("binary", Cross(BinaryOps, Cross(OperandKinds, OperandKinds)), Src)

\* `x = v;` with no declaration of x in scope: at top level, in a block, in
\* a called function, in a function nested in a called function, and after
\* a block or a function that declared its own x has ended
SrcAssignUndeclared(nest, v) ==
    LET a == Expression(Assign("x", Num(v)))
    IN  CASE nest = "top" -> <<a>>
          [] nest = "block" -> <<Block(<<Block(<<a>>)>>)>>
          [] nest = "function" ->
                <<Function("f", <<>>, <<a>>), Expression(CallV("f", <<>>))>>
          [] nest = "nested" ->
                <<Function("f", <<"y">>,
                           <<Function("g", <<>>, <<Block(<<a>>)>>),
                             Expression(CallV("g", <<>>))>>),
                  Expression(CallV("f", <<Num(v)>>))>>
          [] nest = "after_block" -> <<Block(<<Var("x", Num(v))>>), a>>
          [] nest = "after_function" ->
                <<Function("f", <<"x">>, <<>>), Expression(CallV("f", <<Num(v)>>)), a>>

AssignNests == <<"top", "block", "function", "nested", "after_block", "after_function">>

AssignUndeclaredSessions ==
    LET Src(p) == SrcAssignUndeclared(p[1], p[2])
    IN  Sessions("assign_undeclared", Cross(AssignNests, Vals), Src)

\* `var x = x;` at global scope (alone, or after `var x = v;`), in a block,
\* in a block inside a block that declares x, in a function body, in a block
\* of a function with a parameter x, and in a method body
SrcSelfInit(place, v) ==
    LET d == Var("x", V("x"))
    IN  CASE place = "global" -> <<d>>
          [] place = "global_declared" -> <<Var("x", Num(v)), d>>
          [] place = "block" -> <<Block(<<d>>)>>
          [] place = "outer_declares" -> <<Block(<<Var("x", Num(v)), Block(<<d>>)>>)>>
          [] place = "function" -> <<Function("f", <<>>, <<d>>)>>
          [] place = "parameter" -> <<Function("f", <<"x">>, <<Block(<<d>>)>>)>>
          [] place = "method" ->
                <<ClassStmt("A", <<Function("m", <<>>, <<d>>)>>, None)>>

SelfInitPlaces ==
    <<"global", "global_declared", "block", "outer_declares", "function", "parameter",
      "method">>

SelfInitSessions ==
    LET Src(p) == SrcSelfInit(p[1], p[2])
    IN  Sessions("self_init", Cross(SelfInitPlaces, Vals), Src)

\* Programs that declare a name twice: in one block (two `var`s; a `var`
\* then a function, a class, or a class with a superclass), as two
\* parameters, as a parameter and a local of the body; in a block under the
\* frame that holds the name; and at global scope.
SrcRedeclare(kind, v) ==
    LET d == Var("a", Num(v))
    IN  CASE kind = "two_vars" -> <<Block(<<d, d>>)>>
          [] kind = "var_function" -> <<Block(<<d, Function("a", <<>>, <<>>)>>)>>
          [] kind = "var_class" -> <<Block(<<d, ClassStmt("a", <<>>, None)>>)>>
          [] kind = "var_subclass" ->
                <<ClassStmt("A", <<>>, None),
                  Block(<<d, ClassStmt("a", <<>>, Some(V("A")))>>)>>
          [] kind = "two_parameters" -> <<Function("f", <<"a", "a">>, <<>>)>>
          [] kind = "parameter_local" -> <<Function("f", <<"a">>, <<d>>)>>
          [] kind = "enclosing_block" -> <<Block(<<d, Block(<<d>>)>>)>>
          [] kind = "enclosing_parameter" -> <<Function("f", <<"a">>, <<Block(<<d>>)>>)>>
          [] kind = "global_vars" -> <<d, d>>
          [] kind = "global_function" -> <<Function("a", <<>>, <<>>), d>>

SameFrameKinds ==
    <<"two_vars", "var_function", "var_class", "var_subclass", "two_parameters",
      "parameter_local">>

OtherFrameKinds ==
    <<"enclosing_block", "enclosing_parameter", "global_vars", "global_function">>

RedeclareSessions ==
    LET Src(p) == SrcRedeclare(p[1], p[2])
    IN  Sessions("redeclare", Cross(SameFrameKinds \o OtherFrameKinds, Vals), Src)

\* A statement `what` (a `return v;`, a `print this;` or a `print super.m;`)
\* placed at top level, in a top-level block, after a function, a class or
\* an anonymous function has ended, in a function, in a block of a function,
\* in a function after a nested function has ended, in an anonymous
\* function, and in a method.
SrcPlaced(what, place, v) ==
    LET s == CASE what = "return" -> Ret(Num(v))
               [] what = "this" -> Show(This)
               [] what = "super" -> Show(Super("m"))
        f == Function("f", <<>>, <<Show(Num(v))>>)
        c == ClassStmt("A", <<Function("m", <<>>, <<Show(Num(v))>>)>>, None)
    IN  CASE place = "top" -> <<s>>
          [] place = "block" -> <<Block(<<s>>)>>
          [] place = "after_function" -> <<f, s>>
          [] place = "after_class" -> <<c, s>>
          [] place = "after_anonymous" -> <<Var("g", AnonFunction(<<>>, <<Show(Num(v))>>)), s>>
          [] place = "function" -> <<Function("h", <<>>, <<s>>)>>
          [] place = "function_block" -> <<Function("h", <<>>, <<Block(<<s>>)>>)>>
          [] place = "function_after_nested" -> <<Function("h", <<>>, <<f, s>>)>>
          [] place = "anonymous" -> <<Var("g", AnonFunction(<<>>, <<s>>))>>
          [] place = "method" -> <<ClassStmt("B", <<Function("m", <<>>, <<s>>)>>, None)>>

OutsidePlaces == <<"top", "block", "after_function", "after_class", "after_anonymous">>

FunctionPlaces == <<"function", "function_block", "function_after_nested", "anonymous">>

PlacedParams ==
    Cross(Cross(<<"return">>, OutsidePlaces \o FunctionPlaces \o <<"method">>), Vals)
    \o Cross(Cross(<<"this", "super">>, OutsidePlaces \o FunctionPlaces), Vals)

PlacedSessions ==
    LET Src(p) == SrcPlaced(p[1][1], p[1][2], p[2])
    IN  Sessions("placed", PlacedParams, Src)

ParamNames == <<"a", "b", "c", "d">>

Counts == [i \in 1..(MaxVal + 1) |-> i - 1]

\* `fun note(x) { print(x); return x; }  fun f(a, ..) { print(0); }
\*  f(note(1), .., note(m));` with n parameters and m arguments
SrcArity(n, m) ==
    <<Function("note", <<"x">>, <<Show(V("x")), Ret(V("x"))>>),
      Function("f", SubSeq(ParamNames, 1, n), <<Show(Num(0))>>),
      Expression(CallV("f", [i \in 1..m |-> CallV("note", <<Num(i)>>)]))>>

AritySessions ==
    LET Src(p) == SrcArity(p[1], p[2])
    IN  Sessions("arity", Cross(Counts, Counts), Src)

\* `class A { init(v) { this.x = v; RETURN } }
\*  var a = A(v); var b = a; b.y = v + 1; print(a.x); print(a.y);
\*  a.x = v + 2; print(b.x);`
\* with RETURN nothing, `return;`, `return nil;`, `return 0;` or `return this;`
SrcInitReturn(ret, v) ==
    LET r == CASE ret = "none" -> <<>>
               [] ret = "bare" -> <<ReturnStmt(None)>>
               [] ret = "nil" -> <<Ret(Literal(Nil))>>
               [] ret = "number" -> <<Ret(Num(0))>>
               [] ret = "this" -> <<Ret(This)>>
    IN  <<ClassStmt("A", <<Function("init", <<"v">>,
                                    <<Expression(Set(This, "x", V("v")))>> \o r)>>, None),
          Var("a", CallV("A", <<Num(v)>>)),
          Var("b", V("a")),
          Expression(Set(V("b"), "y", Num(v + 1))),
          Show(Get(V("a"), "x")),
          Show(Get(V("a"), "y")),
          Expression(Set(V("a"), "x", Num(v + 2))),
          Show(Get(V("b"), "x"))>>

InitReturns == <<"none", "bare", "nil", "number", "this">>

InitReturnSessions ==
    LET Src(p) == SrcInitReturn(p[1], p[2])
    IN  Sessions("init_return", Cross(InitReturns, Vals), Src)

\* `class G { far() { print(v + 3); } }
\*  class S < G { up() { print(v + 2); } both() { print(v + 4); } }
\*  class A < S { own() { print(v + 1); } both() { print(v); } }
\*  var a = A();` followed by one property read
SrcGet(read, v) ==
    LET m(name, n) == Function(name, <<>>, <<Show(Num(n))>>)
        call(name) == <<Expression(Call(Get(V("a"), name), <<>>))>>
        of(e) == <<Show(Get(e, "own"))>>
    IN  <<ClassStmt("G", <<m("far", v + 3)>>, None),
          ClassStmt("S", <<m("up", v + 2), m("both", v + 4)>>, Some(V("G"))),
          ClassStmt("A", <<m("own", v + 1), m("both", v)>>, Some(V("S"))),
          Var("a", CallV("A", <<>>))>>
        \o CASE read = "field" ->
                    <<Expression(Set(V("a"), "f", Num(v))), Show(Get(V("a"), "f"))>>
             [] read = "field_hides_own" ->
                    <<Expression(Set(V("a"), "own", Num(v))), Show(Get(V("a"), "own"))>>
             [] read = "field_hides_super" ->
                    <<Expression(Set(V("a"), "up", Num(v))), Show(Get(V("a"), "up"))>>
             [] read = "own" -> call("own")
             [] read = "both" -> call("both")
             [] read = "up" -> call("up")
             [] read = "far" -> call("far")
             [] read = "missing" -> <<Show(Get(V("a"), "f"))>>
             [] read = "on_number" -> of(Num(v))
             [] read = "on_string" -> of(Str(<<"a">>))
             [] read = "on_boolean" -> of(Literal(True))
             [] read = "on_nil" -> of(Literal(Nil))
             [] read = "on_class" -> of(V("A"))
             [] read = "on_method" -> of(Get(V("a"), "own"))

FoundReads == <<"field", "field_hides_own", "field_hides_super", "own", "both", "up">>

AbsentReads == <<"far", "missing">>

NonInstanceReads ==
    <<"on_number", "on_string", "on_boolean", "on_nil", "on_class", "on_method">>

GetSessions ==
    LET Src(p) == SrcGet(p[1], p[2])
    IN  Sessions("get", Cross(FoundReads \o AbsentReads \o NonInstanceReads, Vals), Src)

FieldNames == <<"x", "y">>

\* Every sequence of three field names
WriteSeqs ==
    [i \in 1..8 |-> <<FieldNames[(((i - 1) \div 4) % 2) + 1],
                      FieldNames[(((i - 1) \div 2) % 2) + 1],
                      FieldNames[((i - 1) % 2) + 1]>>]

\* `class A {} var a = A(); a.n1 = v + 1; a.n2 = v + 2; a.n3 = v + 3;`
SrcWrites(names, v) ==
    <<ClassStmt("A", <<>>, None), Var("a", CallV("A", <<>>))>>
    \o [i \in 1..Len(names) |-> Expression(Set(V("a"), names[i], Num(v + i)))]

WritesSessions ==
    LET Src(p) == SrcWrites(p[1], p[2])
    IN  Sessions("writes", Cross(WriteSeqs, Vals), Src)

\* `if (VAL) print(1); else print(0);` and `print(!VAL);` with VAL 0, v, -v,
\* "", "a", true, false or nil
SrcTruth(kind, use, v) ==
    LET val == CASE kind = "zero" -> Num(0)
                 [] kind = "positive" -> Num(v)
                 [] kind = "negative" -> Unary("Minus", Num(v))
                 [] kind = "empty" -> Str(<<>>)
                 [] kind = "string" -> Str(<<"a">>)
                 [] kind = "true" -> Literal(True)
                 [] kind = "false" -> Literal(False)
                 [] kind = "nil" -> Literal(Nil)
    IN  CASE use = "if" -> <<IfStmt(val, Show(Num(1)), Some(Show(Num(0))))>>
          [] use = "not" -> <<Show(Unary("Bang", val))>>

TruthValues ==
    <<"zero", "positive", "negative", "empty", "string", "true", "false", "nil">>

TruthSessions ==
    LET Src(p) == SrcTruth(p[1][1], p[1][2], p[2])
    IN  Sessions("truth", Cross(Cross(TruthValues, <<"if", "not">>), Vals), Src)

\* `fun note(x) { print(x); return x; }  print(LEFT op note(v));` with op
\* `or` or `and` and LEFT 0, v, "", "a", true, false or nil
SrcLogical(op, kind, v) ==
    LET left == CASE kind = "zero" -> Num(0)
                  [] kind = "positive" -> Num(v)
                  [] kind = "empty" -> Str(<<>>)
                  [] kind = "string" -> Str(<<"a">>)
                  [] kind = "true" -> Literal(True)
                  [] kind = "false" -> Literal(False)
                  [] kind = "nil" -> Literal(Nil)
    IN  <<Function("note", <<"x">>, <<Show(V("x")), Ret(V("x"))>>),
          Show(Logical(left, op, CallV("note", <<Num(v + 1)>>)))>>

LogicalLefts == <<"zero", "positive", "empty", "string", "true", "false", "nil">>

LogicalSessions ==
    LET Src(p) == SrcLogical(p[1][1], p[1][2], p[2])
    IN  Sessions("logical", Cross(Cross(<<"Or", "And">>, LogicalLefts), Vals), Src)

\* `fun f() {}  fun g() {}
\*  fun mk() { var c = 1; fun f() { return c; } return f; }
\*  fun mk1() { fun f(a) {} return f; }
\*  print(L op R);` with op `==` or `!=` and L, R among two numbers, three
\* strings (one spelling the first number), true, false, nil, and the
\* functions f, mk(), mk1() and g
SrcEquality(op, lkind, rkind) ==
    LET val(kind) ==
            CASE kind = "number" -> Num(MaxVal)
              [] kind = "other_number" -> Num(MaxVal + 1)
              [] kind = "digits" -> Str(NumToString(MaxVal))
              [] kind = "string" -> Str(<<"a">>)
              [] kind = "other_string" -> Str(<<"b">>)
              [] kind = "true" -> Literal(True)
              [] kind = "false" -> Literal(False)
              [] kind = "nil" -> Literal(Nil)
              [] kind = "f" -> V("f")
              [] kind = "f_closure" -> CallV("mk", <<>>)
              [] kind = "f_unary" -> CallV("mk1", <<>>)
              [] kind = "g" -> V("g")
    IN  <<Function("f", <<>>, <<>>),
          Function("g", <<>>, <<>>),
          Function("mk", <<>>, <<Var("c", Num(1)),
                                 Function("f", <<>>, <<Ret(V("c"))>>),
                                 Ret(V("f"))>>),
          Function("mk1", <<>>, <<Function("f", <<"a">>, <<>>), Ret(V("f"))>>),
          Show(Binary(val(lkind), op, val(rkind)))>>

EqualityKinds ==
    <<"number", "other_number", "digits", "string", "other_string", "true", "false",
      "nil", "f", "f_closure", "f_unary", "g">>

EqualitySessions ==
    LET Src(p) == SrcEquality(p[1], p[2][1], p[2][2])
    IN  Sessions("equality",
                 Cross(<<"EqualEqual", "BangEqual">>, Cross(EqualityKinds, EqualityKinds)),
                 Src)

\* `class A {}  fun f() {}  var i = A();  print(L == R);  print(R == L);`
\* with L and R among a number, a string, true, false, nil, f, clock, A and i
SrcEqualityPair(lkind, rkind) ==
    LET val(kind) ==
            CASE kind = "number" -> Num(MaxVal)
              [] kind = "string" -> Str(<<"a">>)
              [] kind = "true" -> Literal(True)
              [] kind = "false" -> Literal(False)
              [] kind = "nil" -> Literal(Nil)
              [] kind = "function" -> V("f")
              [] kind = "native" -> V("clock")
              [] kind = "class" -> V("A")
              [] kind = "instance" -> V("i")
    IN  <<ClassStmt("A", <<>>, None),
          Function("f", <<>>, <<>>),
          Var("i", CallV("A", <<>>)),
          Show(Binary(val(lkind), "EqualEqual", val(rkind))),
          Show(Binary(val(rkind), "EqualEqual", val(lkind)))>>

PairKinds ==
    <<"number", "string", "true", "false", "nil", "function", "native", "class",
      "instance">>

EqualityPairSessions ==
    LET Src(p) == SrcEqualityPair(p[1], p[2])
    IN  Sessions("equality_pair", Cross(PairKinds, PairKinds), Src)

\* `var a = v; var a = v + 1; print(a);
\*  { var a = v + 2; var b = v + 3; print(a); print(b); }
\*  print(a); print(b);`
SrcDefine(v) ==
    <<Var("a", Num(v)),
      Var("a", Num(v + 1)),
      Show(V("a")),
      Block(<<Var("a", Num(v + 2)), Var("b", Num(v + 3)), Show(V("a")), Show(V("b"))>>),
      Show(V("a")),
      Show(V("b"))>>

DefineSessions ==
    LET Src(p) == SrcDefine(p) IN Sessions("define", Vals, Src)

(***************************************************************************)
(* tokenize (scanner.rs).  A source text is a sequence of one-character    *)
(* strings; a token is [token_type, name, line]; the result is the token   *)
(* vector or the exit code 65.                                             *)
(***************************************************************************)
Token_new(token, value, line) == [token_type |-> token, name |-> value, line |-> line]

Digits == {"0", "1", "2", "3", "4", "5", "6", "7", "8", "9"}

Letters ==
    {"a", "b", "c", "d", "e", "f", "g", "h", "i", "j", "k", "l", "m", "n", "o", "p",
     "q", "r", "s", "t", "u", "v", "w", "x", "y", "z", "A", "B", "C", "D", "E", "F",
     "G", "H", "I", "J", "K", "L", "M", "N", "O", "P", "Q", "R", "S", "T", "U", "V",
     "W", "X", "Y", "Z"}

\* The HashMap of tokenize_identifier, keyed by the spelled word
keywords ==
    [w \in {<<"a", "n", "d">>, <<"c", "l", "a", "s", "s">>, <<"e", "l", "s", "e">>,
            <<"f", "a", "l", "s", "e">>, <<"f", "o", "r">>, <<"f", "u", "n">>,
            <<"i", "f">>, <<"n", "i", "l">>, <<"o", "r">>,
            <<"p", "r", "i", "n", "t">>, <<"r", "e", "t", "u", "r", "n">>,
            <<"s", "u", "p", "e", "r">>, <<"t", "h", "i", "s">>,
            <<"t", "r", "u", "e">>, <<"l", "e", "t">>, <<"w", "h", "i", "l", "e">>} |->
        CASE w = <<"a", "n", "d">> -> "And"
          [] w = <<"c", "l", "a", "s", "s">> -> "Class"
          [] w = <<"e", "l", "s", "e">> -> "Else"
          [] w = <<"f", "a", "l", "s", "e">> -> "False"
          [] w = <<"f", "o", "r">> -> "For"
          [] w = <<"f", "u", "n">> -> "Fun"
          [] w = <<"i", "f">> -> "If"
          [] w = <<"n", "i", "l">> -> "Nil"
          [] w = <<"o", "r">> -> "Or"
          [] w = <<"p", "r", "i", "n", "t">> -> "Print"
          [] w = <<"r", "e", "t", "u", "r", "n">> -> "Return"
          [] w = <<"s", "u", "p", "e", "r">> -> "Super"
          [] w = <<"t", "h", "i", "s">> -> "This"
          [] w = <<"t", "r", "u", "e">> -> "True"
          [] w = <<"l", "e", "t">> -> "Let"
          [] w = <<"w", "h", "i", "l", "e">> -> "While"]

\* The longest prefix of src whose characters all lie in set
RECURSIVE TakeWhile(_, _)
TakeWhile(src, set) ==
    IF src # <<>> /\ Head(src) \in set THEN <<Head(src)>> \o TakeWhile(Tail(src), set)
    ELSE <<>>

Drop(src, n) == SubSeq(src, n + 1, Len(src))

\* The loop of tokenize_string: up to the closing quote, newlines counted
\* and left out of the string
RECURSIVE string_loop(_, _, _)
string_loop(src, line, string) ==
    IF src # <<>> /\ Head(src) # "\""
    THEN IF Head(src) = "\n" THEN string_loop(Tail(src), line + 1, string)
         ELSE string_loop(Tail(src), line, Append(string, Head(src)))
    ELSE [src |-> src, line |-> line, string |-> string]

tokenize_string(src, line) ==
    LET s == string_loop(src, line, <<>>)
    IN  IF s.src = <<>> THEN [ok |-> FALSE, src |-> s.src, line |-> s.line, tokens |-> <<>>]
        ELSE [ok |-> TRUE, src |-> Tail(s.src), line |-> s.line,
              tokens |-> <<Token_new("String", s.string, s.line)>>]

tokenize_number(src, line, first_digit) ==
    LET whole == TakeWhile(src, Digits)
        rest == Drop(src, Len(whole))
        fraction == IF rest # <<>> /\ Head(rest) = "."
                    THEN <<".">> \o TakeWhile(Tail(rest), Digits) ELSE <<>>
    IN  [ok |-> TRUE, src |-> Drop(rest, Len(fraction)), line |-> line,
         tokens |-> <<Token_new("Number", <<first_digit>> \o whole \o fraction, line)>>]

tokenize_identifier(src, line, first_char) ==
    LET more == TakeWhile(src, Letters \cup Digits)
        identifier == <<first_char>> \o more
    IN  [ok |-> TRUE, src |-> Drop(src, Len(more)), line |-> line,
         tokens |-> <<Token_new(IF identifier \in DOMAIN keywords
                                THEN keywords[identifier] ELSE "Identifier",
                                identifier, line)>>]

\* while !src.is_empty() && next_ch != Some('\n') { src.remove(0); }
\* next_ch is the character read before the loop; the loop does not
\* read it again.
RECURSIVE skip_comment(_, _)
skip_comment(src, next_ch) ==
    IF src # <<>> /\ next_ch # Some("\n") THEN skip_comment(Tail(src), next_ch)
    ELSE src

\* One turn of the `while !src.is_empty()` loop of tokenize: the match on ch
scan_one(src, line) ==
    LET ch == Head(src)
        rest == Tail(src)
        next_ch == IF rest = <<>> THEN None ELSE Some(Head(rest))
        one(token) == [ok |-> TRUE, src |-> rest, line |-> line,
                       tokens |-> <<Token_new(token, <<ch>>, line)>>]
        two(token) == [ok |-> TRUE, src |-> Tail(rest), line |-> line,
                       tokens |-> <<Token_new(token, <<ch, "=">>, line)>>]
        none(s, l) == [ok |-> TRUE, src |-> s, line |-> l, tokens |-> <<>>]
    IN  CASE ch = "(" -> one("LeftParen")
          [] ch = ")" -> one("RightParen")
          [] ch = "{" -> one("LeftBrace")
          [] ch = "}" -> one("RightBrace")
          [] ch = "," -> one("Comma")
          [] ch = "." -> one("Dot")
          [] ch = "-" -> one("Minus")
          [] ch = "+" -> one("Plus")
          [] ch = ";" -> one("Semicolon")
          [] ch = "*" -> one("Star")
          [] ch = "!" -> IF next_ch = Some("=") THEN two("BangEqual") ELSE one("Bang")
          [] ch = "=" -> IF next_ch = Some("=") THEN two("EqualEqual") ELSE one("Equal")
          [] ch = "<" -> IF next_ch = Some("=") THEN two("LessEqual") ELSE one("Less")
          [] ch = ">" -> IF next_ch = Some("=") THEN two("GreaterEqual")
                         ELSE one("Greater")
          [] ch = "/" -> IF next_ch = Some("/") THEN none(skip_comment(rest, next_ch), line)
                         ELSE one("Slash")
          [] ch = "\n" -> none(rest, line + 1)
          [] ch = " " -> none(rest, line)
          [] ch = "\"" -> tokenize_string(rest, line)
          [] ch \in Digits -> tokenize_number(rest, line, ch)
          [] ch \in Letters -> tokenize_identifier(rest, line, ch)
          [] OTHER -> [ok |-> FALSE, src |-> rest, line |-> line, tokens |-> <<>>]

RECURSIVE tokenize_loop(_, _, _)
tokenize_loop(src, line, tokens) ==
    IF src = <<>>
    THEN [ok |-> TRUE, tokens |-> Append(tokens, Token_new("EOF", <<>>, line)), code |-> 0]
    ELSE LET s == scan_one(src, line)
         IN  IF ~s.ok THEN [ok |-> FALSE, tokens |-> <<>>, code |-> 65]
             ELSE tokenize_loop(s.src, s.line, tokens \o s.tokens)

tokenize(source_code) == tokenize_loop(source_code, 1, <<>>)

\* Source texts `BEFORE COMMENT \n AFTER`: BEFORE nothing, `>=` or `a`,
\* COMMENT nothing, `//` or `// c`, AFTER `>` or `b;`
TextBefore == << <<>>, <<">", "=">>, <<"a">> >>

TextComment == << <<>>, <<"/", "/">>, <<"/", "/", " ", "c">> >>

TextAfter == << <<">">>, <<"b", ";">> >>

TextParts == Cross(Cross(TextBefore, TextComment), TextAfter)

TokenizeSessions ==
    [i \in 1..Len(TextParts) |->
        Session("tokenize",
                TextParts[i][1][1] \o TextParts[i][1][2] \o <<"\n">> \o TextParts[i][2],
                <<>>)]

(***************************************************************************)
(* Lexer (lexer.rs).  The lexer is [src, tokens, start, curr, line] with   *)
(* start and curr counting characters from 0; a token is [token_type,      *)
(* name, literal, line], the literal of a Number being its text.           *)
(***************************************************************************)
Token_with_literal(token, value, literal, line) ==
    [token_type |-> token, name |-> value, literal |-> literal, line |-> line]

Lexer_new(src) == [src |-> src, tokens |-> <<>>, start |-> 0, curr |-> 0, line |-> 1]

Lexer_is_at_end(lx) == lx.curr >= Len(lx.src)

Lexer_peek(lx) == IF lx.curr < Len(lx.src) THEN Some(lx.src[lx.curr + 1]) ELSE None

peek_next(lx) == IF lx.curr + 1 < Len(lx.src) THEN Some(lx.src[lx.curr + 2]) ELSE None

Lexer_advance(lx) == [lx EXCEPT !.curr = @ + 1]

\* self.src.get(self.start..self.curr)
lexeme(lx, from, to) == SubSeq(lx.src, from + 1, to)

add_token(lx, token_type, literal) ==
    [lx EXCEPT !.tokens = Append(@, Token_with_literal(token_type,
                                                       lexeme(lx, lx.start, lx.curr),
                                                       literal, lx.line))]

\* char_match: whether the next character is `expected`; it is consumed if so
char_match(lx, expected) == Lexer_peek(lx) = Some(expected)

\* while the next character lies in set { advance }
RECURSIVE advance_while(_, _)
advance_while(lx, set) ==
    IF Lexer_peek(lx) # None /\ Lexer_peek(lx)[1] \in set
    THEN advance_while(Lexer_advance(lx), set) ELSE lx

\* while !is_at_end && peek != until { if peek == '\n' && count { line += 1 } advance }
RECURSIVE advance_until(_, _, _)
advance_until(lx, until, count) ==
    IF ~Lexer_is_at_end(lx) /\ Lexer_peek(lx) # Some(until)
    THEN advance_until(
            Lexer_advance(IF count /\ Lexer_peek(lx) = Some("\n")
                          THEN [lx EXCEPT !.line = @ + 1] ELSE lx),
            until, count)
    ELSE lx

Lexer_string(lx) ==
    LET body == advance_until(lx, "\"", TRUE)
        closed == Lexer_advance(body)
    IN  IF Lexer_is_at_end(body) THEN [ok |-> FALSE, lx |-> body]
        ELSE [ok |-> TRUE,
              lx |-> add_token(closed, "String",
                               Some(lexeme(closed, closed.start + 1, closed.curr - 1)))]

Lexer_number(lx) ==
    LET whole == advance_while(lx, Digits)
        all == IF Lexer_peek(whole) = Some(".") /\ peek_next(whole) # None
                  /\ peek_next(whole)[1] \in Digits
               THEN advance_while(Lexer_advance(whole), Digits) ELSE whole
    IN  [ok |-> TRUE, lx |-> add_token(all, "Number", Some(lexeme(all, all.start, all.curr)))]

Lexer_identifier(lx) ==
    LET word == advance_while(lx, Letters \cup Digits \cup {"_"})
        value == lexeme(word, word.start, word.curr)
    IN  [ok |-> TRUE,
         lx |-> add_token(word, IF value \in DOMAIN keywords THEN keywords[value]
                                ELSE "Identifier", None)]

\* Lexer::scan_token: the match on the character just consumed
scan_token(lexer) ==
    LET ch == Lexer_peek(lexer)[1]
        lx == Lexer_advance(lexer)
        one(token) == [ok |-> TRUE, lx |-> add_token(lx, token, None)]
        two(token) == [ok |-> TRUE, lx |-> add_token(Lexer_advance(lx), token, None)]
        skip(l) == [ok |-> TRUE, lx |-> l]
    IN  CASE ch = "(" -> one("LeftParen")
          [] ch = ")" -> one("RightParen")
          [] ch = "{" -> one("LeftBrace")
          [] ch = "}" -> one("RightParen")
          [] ch = "," -> one("Comma")
          [] ch = "." -> one("Dot")
          [] ch = "-" -> one("Minus")
          [] ch = "+" -> one("Plus")
          [] ch = ";" -> one("Semicolon")
          [] ch = "*" -> one("Star")
          [] ch = "!" -> IF char_match(lx, "=") THEN two("BangEqual") ELSE one("Bang")
          [] ch = "=" -> IF char_match(lx, "=") THEN two("EqualEqual") ELSE one("Equal")
          [] ch = "<" -> IF char_match(lx, "=") THEN two("LessEqual") ELSE one("Less")
          [] ch = ">" -> IF char_match(lx, "=") THEN two("GreaterEqual")
                         ELSE one("Greater")
          [] ch = "/" -> IF char_match(lx, "/")
                         THEN skip(advance_until(Lexer_advance(lx), "\n", FALSE))
                         ELSE one("Slash")
          [] ch = "\n" -> skip([lx EXCEPT !.line = @ + 1])
          [] ch \in {" ", "\r", "\t"} -> skip(lx)
          [] ch = "\"" -> Lexer_string(lx)
          [] ch \in Digits -> Lexer_number(lx)
          [] ch \in Letters \cup {"_"} -> Lexer_identifier(lx)
          [] OTHER -> [ok |-> FALSE, lx |-> lx]

\* Lexer::scan_tokens: the token vector ending in EOF, or the Err
RECURSIVE scan_tokens(_)
scan_tokens(lexer) ==
    IF Lexer_is_at_end(lexer)
    THEN [ok |-> TRUE,
          tokens |-> Append(lexer.tokens, Token_with_literal("EOF", <<>>, None, lexer.line))]
    ELSE LET s == scan_token([lexer EXCEPT !.start = lexer.curr])
         IN  IF ~s.ok THEN [ok |-> FALSE, tokens |-> <<>>] ELSE scan_tokens(s.lx)

(***************************************************************************)
(* Parser (parser.rs) on a token vector that holds parentheses, braces and *)
(* semicolons only: the statements are blocks, and no token starts an      *)
(* expression that primary accepts, so an expression statement is an Err.  *)
(* curr counts tokens from 1.                                              *)
(***************************************************************************)
Parser_is_at_end(toks, curr) == curr > Len(toks) \/ toks[curr].token_type = "EOF"

check(toks, curr, token_type) ==
    ~Parser_is_at_end(toks, curr) /\ toks[curr].token_type = token_type

\* Parser::block_statement, entered after the LeftBrace: declarations up to
\* a RightBrace, which is consumed
RECURSIVE block_statement(_, _, _)
block_statement(toks, curr, statements) ==
    IF ~check(toks, curr, "RightBrace") /\ ~Parser_is_at_end(toks, curr)
    THEN IF check(toks, curr, "LeftBrace")
         THEN LET inner == block_statement(toks, curr + 1, <<>>)
              IN  IF ~inner.ok THEN inner
                  ELSE block_statement(toks, inner.curr, Append(statements, inner.stmt))
         ELSE [ok |-> FALSE, curr |-> curr, stmt |-> Block(statements)]
    ELSE IF curr <= Len(toks) /\ toks[curr].token_type = "RightBrace"
         THEN [ok |-> TRUE, curr |-> curr + 1, stmt |-> Block(statements)]
         ELSE [ok |-> FALSE, curr |-> curr, stmt |-> Block(statements)]

\* Parser::parse: Ok(stmts) when every declaration parsed, else the Err
RECURSIVE Parser_parse(_, _, _)
Parser_parse(toks, curr, stmts) ==
    IF Parser_is_at_end(toks, curr) THEN [ok |-> TRUE, stmts |-> stmts]
    ELSE IF check(toks, curr, "LeftBrace")
         THEN LET b == block_statement(toks, curr + 1, <<>>)
              IN  IF ~b.ok THEN [ok |-> FALSE, stmts |-> <<>>]
                  ELSE Parser_parse(toks, b.curr, Append(stmts, b.stmt))
         ELSE [ok |-> FALSE, stmts |-> <<>>]

\* The source texts of the lexer sessions: each single-character
\* punctuation alone, and `{ }`, `{}`, `{{}}`, `{` and a blank
Punctuation == <<"(", ")", "{", "}", ",", ".", "-", "+", ";", "*">>

BlockTexts == << <<"{", " ", "}">>, <<"{", "}">>, <<"{", "{", "}", "}">> >>

ScanSessions ==
    [i \in 1..Len(Punctuation) |-> Session("punctuation", <<Punctuation[i]>>, <<>>)]
    \o [i \in 1..Len(BlockTexts) |-> Session("block_text", BlockTexts[i], <<>>)]
    \o <<Session("other_text", <<"{">>, <<>>), Session("other_text", <<" ">>, <<>>)>>

\* Programs whose references carry a distance:
\*  block:   `{ var a = v; { { print(a); a = v + 1; print(a); } } }`
\*  function: `fun f(p) { { print(p); p = p + 1; } return p; } print(f(v));`
\*  closure: `fun mk() { var c = v; fun g() { c = c + 1; return c; } return g; }
\*            var h = mk(); print(h());`
\*  method_*: `var g = v; class A {} class C [< A] { m(p) { BODY } } C().m(v + 1);
\*            print(g);` with BODY `{ print(p); p = p + 1; print(p); g = v + 2; }`
\*            (params), `print(C);` (class_read) or `C = v;` followed after the
\*            call by `print(C);` (class_assign)
SrcNesting(kind, super, v) ==
    LET body == CASE kind = "params" ->
                        <<Block(<<Show(V("p")),
                                  Expression(Assign("p", Binary(V("p"), "Plus", Num(1)))),
                                  Show(V("p")),
                                  Expression(Assign("g", Num(v + 2)))>>)>>
                  [] kind = "class_read" -> <<Show(V("C"))>>
                  [] kind = "class_assign" -> <<Expression(Assign("C", Num(v)))>>
                  [] OTHER -> <<>>
    IN  CASE kind = "block" ->
                <<Block(<<Var("a", Num(v)),
                          Block(<<Block(<<Show(V("a")),
                                          Expression(Assign("a", Num(v + 1))),
                                          Show(V("a"))>>)>>)>>)>>
          [] kind = "function" ->
                <<Function("f", <<"p">>,
                           <<Block(<<Show(V("p")),
                                     Expression(Assign("p", Binary(V("p"), "Plus",
                                                                   Num(1))))>>),
                             Ret(V("p"))>>),
                  Show(CallV("f", <<Num(v)>>))>>
          [] kind = "closure" ->
                <<Function("mk", <<>>,
                           <<Var("c", Num(v)),
                             Function("g", <<>>,
                                      <<Expression(Assign("c", Binary(V("c"), "Plus",
                                                                      Num(1)))),
                                        Ret(V("c"))>>),
                             Ret(V("g"))>>),
                  Var("h", CallV("mk", <<>>)),
                  Show(CallV("h", <<>>))>>
          [] OTHER ->
                <<Var("g", Num(v)),
                  ClassStmt("A", <<>>, None),
                  ClassStmt("C", <<Function("m", <<"p">>, body)>>,
                            IF super = "super" THEN Some(V("A")) ELSE None),
                  Expression(Call(Get(CallV("C", <<>>), "m"), <<Num(v + 1)>>))>>
                \o (IF kind = "class_assign" THEN <<Show(V("C"))>> ELSE <<Show(V("g"))>>)

NestingKinds ==
    Cross(<<"block", "function", "closure">>, <<"none">>)
    \o Cross(<<"params", "class_read", "class_assign">>, <<"plain", "super">>)

NestingSessions ==
    LET Src(p) == SrcNesting(p[1][1], p[1][2], p[2])
    IN  Sessions("nesting", Cross(NestingKinds, Vals), Src)

\* `class A { m() {} }  class B < A { n() { PLACE } }` with PLACE holding
\* `print(this);` or `print(super.m);` directly, in a block, in an if, in a
\* while, in a block inside a block, or in a function nested in the method
SrcInMethod(what, place) ==
    LET s == IF what = "this" THEN Show(This) ELSE Show(Super("m"))
        body == CASE place = "direct" -> <<s>>
                  [] place = "block" -> <<Block(<<s>>)>>
                  [] place = "if" -> <<IfStmt(Literal(True), s, None)>>
                  [] place = "while" -> <<WhileStmt(Literal(False), s)>>
                  [] place = "block_block" -> <<Block(<<Block(<<s>>)>>)>>
                  [] place = "function" -> <<Function("g", <<>>, <<s>>)>>
    IN  <<ClassStmt("A", <<Function("m", <<>>, <<>>)>>, None),
          ClassStmt("B", <<Function("n", <<>>, body)>>, Some(V("A")))>>

MethodPlaces == <<"direct", "block", "if", "while", "block_block", "function">>

InMethodSessions ==
    LET Src(p) == SrcInMethod(p[1], p[2])
    IN  Sessions("in_method", Cross(<<"this", "super">>, MethodPlaces), Src)

\* Three lines of a REPL session: `x = v;` with x undeclared (at top level,
\* in a block, or in a called function), then `print(x);`, then `x = v + 1;`
AssignThenReadSessions ==
    LET params == Cross(<<"top", "block", "function">>, Vals)
    IN  [i \in 1..Len(params) |->
            Session("assign_then_read", params[i],
                    <<SrcAssignUndeclared(params[i][1], params[i][2]),
                      <<Show(V("x"))>>,
                      <<Expression(Assign("x", Num(params[i][2] + 1)))>>>>)]

\* Two lines of a REPL session: a statement that ends, with success or with
\* an error raised at some depth, and then `var y = v; print(y);`.  The
\* first line is `{ { var a = v; } }`, `{ { print(zz); } }`,
\* `while (true) { print(zz); }`, `fun f() { { print(zz); } } f();`,
\* `{ class A {} }`, `{ fun f() { class A {} } f(); }` or
\* `var n = v; class B < n {}`
SrcDepth(kind, v) ==
    LET bad == Show(V("zz"))
    IN  CASE kind = "success" -> <<Block(<<Block(<<Var("a", Num(v))>>)>>)>>
          [] kind = "block" -> <<Block(<<Block(<<bad>>)>>)>>
          [] kind = "loop" -> <<WhileStmt(Literal(True), Block(<<bad>>))>>
          [] kind = "call" ->
                <<Function("f", <<>>, <<Block(<<bad>>)>>), Expression(CallV("f", <<>>))>>
          [] kind = "class" -> <<Block(<<ClassStmt("A", <<>>, None)>>)>>
          [] kind = "class_in_call" ->
                <<Block(<<Function("f", <<>>, <<ClassStmt("A", <<>>, None)>>),
                          Expression(CallV("f", <<>>))>>)>>
          [] kind = "bad_superclass" ->
                <<Var("n", Num(v)), ClassStmt("B", <<>>, Some(V("n")))>>

DepthKinds ==
    <<"success", "block", "loop", "call", "class", "class_in_call", "bad_superclass">>

DepthSessions ==
    LET params == Cross(DepthKinds, Vals)
    IN  [i \in 1..Len(params) |->
            Session("depth", params[i],
                    <<SrcDepth(params[i][1], params[i][2]),
                      <<Var("y", Num(params[i][2])), Show(V("y"))>>>>)]

\* The sessions the model runs: script n is Scripts[n].
Scripts ==
    ReturnNestedSessions \o ReturnWhileSessions \o CounterSessions
    \o GlobalCaptureSessions \o ShadowSessions \o InheritInitSessions
    \o ClassNestedSessions \o SelfRefSessions \o InheritSessions \o ReplSessions
    \o TruthMisuseSessions
    \o BinarySessions
    \o AssignUndeclaredSessions
    \o SelfInitSessions
    \o RedeclareSessions
    \o PlacedSessions
    \o AritySessions
    \o InitReturnSessions
    \o GetSessions
    \o WritesSessions
    \o TruthSessions
    \o LogicalSessions
    \o EqualitySessions
    \o EqualityPairSessions
    \o DefineSessions
    \o TokenizeSessions
    \o ScanSessions
    \o NestingSessions
    \o InMethodSessions
    \o AssignThenReadSessions
    \o DepthSessions

(***************************************************************************)
(* The REPL (main.rs, run_prompt and run): one persistent interpreter, a   *)
(* new lexer, parser and resolver for every line.  A session whose p is a  *)
(* source text has no program lines: its text goes through tokenize or,   *)
(* as a line of input, through the lexer and the parser of run, and        *)
(* `tokens` holds the token vector produced (None before the call).        *)
(***************************************************************************)
VARIABLES script, pc, st, interp, status, last, tokens

vars == <<script, pc, st, interp, status, last, tokens>>

Interpreter_new == Interpreter_with_env(GlobalFrame)

\* fn run, once the resolver has answered: its Err is returned, or its
\* distances go to the interpreter, which then interprets the statements.
run_resolved(stmts, r, int, heap) ==
    IF ~r.ok THEN [kind |-> "err", int |-> int, st |-> [heap EXCEPT !.out = <<>>],
                   msg |-> r.msg]
    ELSE interpret(int, stmts, [Environment_resolve(heap, r.locals) EXCEPT !.out = <<>>])

\* fn run, once the parser has answered
run_parsed(stmts, int, heap) == run_resolved(stmts, resolve(stmts), int, heap)

\* fn run: parse, resolve, hand the distances to the interpreter, interpret.
\* main.rs still calls an older resolver (Resolver::new(interpreter)); with
\* the resolver of resolver.rs the distances reach the interpreter through
\* Resolver::resolve and Interpreter::resolve, which is what is modelled.
\* A new Lexer and a new Parser are made for every call.
run(src, int, heap) == run_parsed(parse(src), int, heap)

Init ==
    /\ script \in 1..Len(Scripts)
    /\ pc = 0
    /\ st = Environment_new(EmptyMap)
    /\ interp = Interpreter_new
    /\ status = "prompt"
    /\ last = [kind |-> "none", msg |-> ""]
    /\ tokens = None

\* What run_prompt does with the outcome r of a line: an Err is printed and
\* the loop goes on; a panic ends the process; a loop that never ends keeps
\* the prompt from coming back.
line_done(r) ==
    /\ st' = r.st
    /\ interp' = r.int
    /\ last' = [kind |-> r.kind, msg |-> r.msg]
    /\ status' = CASE r.kind \in {"ok", "err"} -> "prompt"
                   [] r.kind = "panic" -> "aborted"
                   [] r.kind = "diverge" -> "hung"
                   [] OTHER -> "unfinished"

\* One turn of the loop of run_prompt on a line that holds a program.
ReadLine ==
    /\ status = "prompt"
    /\ pc < Len(Scripts[script].lines)
    /\ line_done(run(Scripts[script].lines[pc + 1], interp, st))
    /\ pc' = pc + 1
    /\ UNCHANGED <<script, tokens>>

\* The empty line: run_prompt returns Ok and main exits with code 0.
Quit ==
    /\ status = "prompt"
    /\ pc = Len(Scripts[script].lines)
    /\ status' = "exited"
    /\ UNCHANGED <<script, pc, st, interp, last, tokens>>

\* A call of tokenize on the text of a session, as lexer_test.rs makes it.
Tokenize ==
    /\ status = "prompt"
    /\ Scripts[script].tag = "tokenize"
    /\ tokens = None
    /\ tokens' = Some(tokenize(Scripts[script].p))
    /\ UNCHANGED <<script, pc, st, interp, status, last>>

\* fn run on a line of text: Lexer::scan_tokens, Parser::parse, then the
\* resolver and the interpreter on the statements; an Err of the lexer or of
\* the parser is the line's Err.
ScanLine ==
    /\ status = "prompt"
    /\ Scripts[script].tag \in {"punctuation", "block_text", "other_text"}
    /\ tokens = None
    /\ LET scanned == scan_tokens(Lexer_new(Scripts[script].p))
           parsed == Parser_parse(scanned.tokens, 1, <<>>)
       IN  /\ tokens' = Some(scanned)
           /\ IF ~scanned.ok
              THEN line_done([kind |-> "err", msg |-> "LexError", int |-> interp, st |-> st])
              ELSE IF ~parsed.ok
              THEN line_done([kind |-> "err", msg |-> "ParseError", int |-> interp,
                              st |-> st])
              ELSE line_done(run_parsed(parsed.stmts, interp, st))
    /\ UNCHANGED <<script, pc>>

Next == ReadLine \/ Quit \/ Tokenize \/ ScanLine

Spec == Init /\ [][Next]_vars

(***************************************************************************)
(* Properties.  A session's program has run when pc = 1 (one-line          *)
(* sessions); st.out holds what the last line printed.                     *)
(***************************************************************************)
Tag == Scripts[script].tag

P == Scripts[script].p

Lines(ns) == [i \in DOMAIN ns |-> NumToString(ns[i])]

Returned == status \in {"prompt", "exited"}

\* The ids get_id hands out while one line is parsed.
ids_of_line(source) == 0..(ParseStmts(source, Parser_new).parser.next_id - 1)

\* C1: a return executed in a block nested in a function body (a block, an
\* if branch, a loop body) stops the call: nothing after it in the nested
\* block or in the function body runs, and the call yields the value of the
\* first return executed.
C1_ReturnStopsCall ==
    (Tag = "return_nested" /\ pc = 1) =>
        /\ last.kind = "ok"
        /\ st.out = Lines(<<P[2]>>)

\* C1, what the code does: the statement after the return in the same block
\* runs and the later return replaces the pending value.
C1_SiblingRanAfterReturn ==
    /\ Tag = "return_nested"
    /\ P[1] = "block"
    /\ pc = 1
    /\ st.out = <<<<"x">>, NumToString(P[2] + 1)>>

\* C2: a call whose body reaches a return inside `while (true)` returns: the
\* line ends, the prompt comes back and the returned value is printed.
C2_ReturnInWhileReturns ==
    (Tag = "return_while" /\ pc = 1) =>
        /\ Returned
        /\ last.kind = "ok"
        /\ st.out = Lines(<<P[2]>>)

\* C2, what the code does: the loop goes round in the same state for ever
\* and the prompt never comes back.
C2_CallNeverReturns ==
    /\ Tag = "return_while"
    /\ pc = 1
    /\ status = "hung"

\* C3: a function runs in a frame that encloses the environment of its
\* creation site, never the caller's: called from a scope that has a variable
\* of the same name it reads and assigns the captured one, the caller's stays
\* as it was, and the assignments persist from call to call (the counter
\* counts on; a second counter starts afresh).
C3_ClosureUsesCreationSite ==
    /\ (Tag = "counter" /\ pc = 1) =>
          /\ last.kind = "ok"
          /\ st.out = Lines(<<P[1] + 1, P[1] + 2, P[1] + 3, P[2], P[1] + 4,
                              P[1] + 1, P[1] + 5>>)
    /\ (Tag = "global_capture" /\ pc = 1) =>
          /\ last.kind = "ok"
          /\ st.out = Lines(<<P[1] + 1, P[2], P[1] + 1>>)

\* C3 witness: the counter program has run with a caller's `n` that differs
\* from the captured one, and printed its seven lines.
C3_CounterCalledFromOtherScope ==
    /\ Tag = "counter"
    /\ pc = 1
    /\ P[1] # P[2]
    /\ last.kind = "ok"
    /\ Len(st.out) = 7

\* C4: with `a` declared in an outer scope and again in an inner block, reads
\* in the inner block after the inner declaration yield the inner value (also
\* after assigning it there), and reads after the block yield the outer value
\* unchanged.
C4_InnerDeclarationShadows ==
    (Tag = "shadow" /\ pc = 1) =>
        /\ last.kind = "ok"
        /\ st.out = Lines(<<P[2][2], P[2][2] + 10, P[2][1]>>)

\* C4 witness: a shadowing program with different outer and inner values has
\* run inside a function body and printed its three lines.
C4_ShadowedInFunction ==
    /\ Tag = "shadow"
    /\ pc = 1
    /\ P[1] = "function"
    /\ P[2][1] # P[2][2]
    /\ last.kind = "ok"
    /\ Len(st.out) = 3

\* C5: calling a class without an init of its own whose superclass defines
\* init runs that init bound to the new instance (the field it sets is
\* there), and fails when the argument count differs from its arity.
C5_SuperclassInitRuns ==
    (Tag = "inherit_init" /\ pc = 1) =>
        IF P[2] = 1
        THEN last.kind = "ok" /\ st.out = Lines(<<P[1]>>)
        ELSE last.kind = "err" /\ last.msg = "ArityMismatch"

\* C5, what the code does: the instance is made without running init, so
\* the field init sets is missing.
C5_InitSkipped ==
    /\ Tag = "inherit_init"
    /\ P[2] = 1
    /\ pc = 1
    /\ last = [kind |-> "err", msg |-> "UndefinedProperty"]

\* C6: a class declaration at top level, in a block or in a function body
\* completes without error and the class is visible by name from top-level
\* code afterwards.
C6_ClassDeclaredAtAnyDepth ==
    (Tag = "class_nested" /\ pc = 1) =>
        /\ last.kind = "ok"
        /\ st.out = <<to_string(Class("A", EmptyMap, None))>>

\* C6, what the code does: in a block the declaration ends with the
\* "Class definition failed" error.
C6_NestedClassFails ==
    /\ Tag = "class_nested"
    /\ P = "block"
    /\ pc = 1
    /\ last = [kind |-> "err", msg |-> "ClassDefinitionFailed"]

\* C7: a method that reads its own class's name, called after the
\* declaration, obtains the Class value, with or without a superclass.
C7_MethodReadsOwnClass ==
    (Tag = "self_ref" /\ pc = 1) =>
        /\ last.kind = "ok"
        /\ st.out = <<<<"Class '", "C", "'">>>>

\* C7, what the code does: with a superclass the method's read of the class
\* name ends in an undefined-variable error.
C7_OwnNameUndefined ==
    /\ Tag = "self_ref"
    /\ P = "super"
    /\ pc = 1
    /\ last = [kind |-> "err", msg |-> "UndefinedVariable"]

\* C8: with B a subclass of A, `greet` on a B instance that does not
\* override it runs A's greet; `super.greet()` inside B's greet runs A's
\* greet, once, with `this` the same B instance (A's greet reads the field
\* set on that instance).
C8_InheritedAndSuperGreet ==
    (Tag = "inherit" /\ pc = 1) =>
        /\ last.kind = "ok"
        /\ st.out = Lines(<<IF P[1] = "override" THEN P[2] + 10 ELSE P[2]>>)

\* C8 witness: the overriding greet has called super.greet() and printed.
C8_SuperGreetCalled ==
    /\ Tag = "inherit"
    /\ pc = 1
    /\ P[1] = "override"
    /\ last.kind = "ok"
    /\ Len(st.out) = 1

\* C9: in one REPL session no id given to a node of one line is given to a
\* node of a later line, and a function defined on an earlier line still
\* works when called after later lines have been resolved.
C9_IdsUniqueAcrossLines ==
    (Tag \in {"repl_two", "repl_three"}) =>
        /\ \A i, j \in 1..pc :
              i < j => ids_of_line(Scripts[script].lines[i])
                         \cap ids_of_line(Scripts[script].lines[j]) = {}
        /\ pc = Len(Scripts[script].lines) =>
              /\ last.kind = "ok"
              /\ st.out = Lines(<<P>>)

\* C9, what the code does: the third line's call of f is looked up with the
\* distance the second line recorded under the same id, and get_internal
\* panics.
C9_StaleDistancePanics ==
    /\ Tag = "repl_three"
    /\ pc = 3
    /\ status = "aborted"

\* C10: a Class, Instance or Callable used as a truth value gives a
\* TypeError that is returned like other run-time errors: the line ends with
\* that error and the process goes on to the next prompt.
C10_TruthTypeErrorReturned ==
    (Tag = "truth_misuse" /\ pc = 1) =>
        /\ last.kind = "err"
        /\ last.msg = "TypeError"
        /\ Returned

\* C10, what the code does: is_truthy / is_falsey panic and the process ends.
C10_ProcessAborted ==
    /\ Tag = "truth_misuse"
    /\ pc = 1
    /\ last.kind = "panic"
    /\ status = "aborted"

\* The operand types the language description lists for a binary operator
\* other than == and !=.
ListedBinary(op, lkind, rkind) ==
    \/ lkind = "Number" /\ rkind = "Number"
    \/ op = "Plus" /\ {lkind, rkind} \subseteq {"Number", "String"}

\* C11: a binary operator other than == and != succeeds only on the listed
\* operand types (arithmetic and comparison on two Numbers, + on Numbers and
\* Strings in any mix); every other combination fails with a TypeError.
C11_BinaryOnlyOnListedTypes ==
    (Tag = "binary" /\ pc = 1) =>
        IF ListedBinary(P[1], P[2][1], P[2][2])
        THEN last.kind = "ok"
        ELSE last = [kind |-> "err", msg |-> "TypeError"]

\* C11, what the code does: a comparison of two Strings succeeds.
C11_StringComparisonSucceeds ==
    /\ Tag = "binary"
    /\ pc = 1
    /\ P = <<"Less", <<"String", "String">>>>
    /\ last.kind = "ok"
    /\ st.out = <<to_string(False)>>

\* C12: assigning to a name that no scope declares (no block, no function
\* frame, not the global frame) fails with UndefinedVariable, at top level,
\* in nested blocks, in a function body and in a nested function.
C12_AssignUndeclaredFails ==
    (Tag = "assign_undeclared" /\ pc = 1) =>
        last = [kind |-> "err", msg |-> "UndefinedVariable"]

\* C12 witness: the assignment ran in a block of a function nested in a
\* called function and the line ended with the error.
C12_AssignedInNestedFunction ==
    /\ Tag = "assign_undeclared"
    /\ P[1] = "nested"
    /\ pc = 1
    /\ last.msg = "UndefinedVariable"
    /\ status = "prompt"

\* What the resolver answers for the line the session has just run.
resolved_line == resolve(parse(Scripts[script].lines[pc]))

\* C13: resolving `var x = x;` fails with SelfReferenceInInitializer inside
\* a block or a function scope (also when an outer scope declares x) and
\* succeeds at global scope, where the scope stack is empty.
C13_SelfReferenceInInitializer ==
    (Tag = "self_init" /\ pc = 1) =>
        IF P[1] \in {"global", "global_declared"}
        THEN resolved_line.ok
        ELSE /\ ~resolved_line.ok
             /\ resolved_line.msg = "SelfReferenceInInitializer"
             /\ last = [kind |-> "err", msg |-> "SelfReferenceInInitializer"]

\* C13 witness: the declaration inside a block whose enclosing block
\* declares x has been refused by the resolver.
C13_RefusedThoughOuterDeclares ==
    /\ Tag = "self_init"
    /\ P[1] = "outer_declares"
    /\ pc = 1
    /\ last.msg = "SelfReferenceInInitializer"

Range(s) == {s[i] : i \in DOMAIN s}

C15_ReturnThisSuperPlacement ==
    (Tag = "placed" /\ pc = 1) =>
        CASE P[1][1] = "return" ->
                IF P[1][2] \in Range(OutsidePlaces)
                THEN ~resolved_line.ok /\ resolved_line.msg = "ReturnOutsideFunction"
                ELSE resolved_line.ok
          [] P[1][1] = "this" ->
                ~resolved_line.ok /\ resolved_line.msg = "ThisOutsideMethod"
          [] P[1][1] = "super" ->
                ~resolved_line.ok /\ resolved_line.msg = "SuperOutsideMethod"

\* C15 witness: a `return` at top level after a function declaration has
\* been refused by the resolver.
C15_ReturnAfterFunctionRefused ==
    /\ Tag = "placed"
    /\ P[1] = <<"return", "after_function">>
    /\ pc = 1
    /\ last = [kind |-> "err", msg |-> "ReturnOutsideFunction"]

\* C16: a call of a function with n parameters succeeds iff it is given
\* exactly n arguments; otherwise it fails with ArityMismatch, and neither
\* the body nor any argument expression has been evaluated.
C16_ArityCheckedBeforeArguments ==
    (Tag = "arity" /\ pc = 1) =>
        IF P[1] = P[2]
        THEN /\ last.kind = "ok"
             /\ st.out = Lines([i \in 1..(P[2] + 1) |-> IF i <= P[2] THEN i ELSE 0])
        ELSE /\ last = [kind |-> "err", msg |-> "ArityMismatch"]
             /\ st.out = <<>>

\* C16 witness: a function of one parameter has been called with two
\* arguments, each of which would have printed.
C16_TooManyArguments ==
    /\ Tag = "arity"
    /\ P = <<1, 2>>
    /\ pc = 1
    /\ last.msg = "ArityMismatch"

\* C17: calling a class yields the new instance whatever `init` returns, and
\* the instance is one shared object: a field `init` wrote through `this` is
\* read on the returned instance, and a field written through one handle is
\* seen through every other handle.
C17_ClassCallYieldsSharedInstance ==
    (Tag = "init_return" /\ pc = 1) =>
        /\ last.kind = "ok"
        /\ st.out = Lines(<<P[2], P[2] + 1, P[2] + 2>>)

\* C17 witness: a class whose `init` returns a number has been called and the
\* fields of the result have been read through two handles.
C17_InitReturnedNumber ==
    /\ Tag = "init_return"
    /\ P[1] = "number"
    /\ pc = 1
    /\ Len(st.out) = 3

\* What the read of a "get" session prints when the property is found.
GetPrints(read, v) ==
    CASE read \in {"field", "field_hides_own", "field_hides_super", "both"} -> v
      [] read = "own" -> v + 1
      [] read = "up" -> v + 2

\* C18: a property read on an instance looks at the instance's fields, then
\* at the methods of its class, then at the methods of the direct superclass
\* and no further: a field hides a method of its name, a method two levels
\* up is not found, a name found nowhere is an UndefinedProperty error, and
\* a read on a value that is no instance is a TypeError.
C18_GetLookupOrder ==
    (Tag = "get" /\ pc = 1) =>
        CASE P[1] \in Range(FoundReads) ->
                last.kind = "ok" /\ st.out = Lines(<<GetPrints(P[1], P[2])>>)
          [] P[1] \in Range(AbsentReads) ->
                last = [kind |-> "err", msg |-> "UndefinedProperty"] /\ st.out = <<>>
          [] P[1] \in Range(NonInstanceReads) ->
                last = [kind |-> "err", msg |-> "TypeError"] /\ st.out = <<>>

\* C18 witness: a method declared two levels above the instance's class has
\* been asked for and was not found.
C18_GrandparentMethodNotFound ==
    /\ Tag = "get"
    /\ P[1] = "far"
    /\ pc = 1
    /\ last.msg = "UndefinedProperty"

\* The first and the last position of name in a sequence of names.
FirstAt(names, name) ==
    CHOOSE i \in 1..Len(names) :
        names[i] = name /\ \A j \in 1..(i - 1) : names[j] # name

LastAt(names, name) ==
    CHOOSE i \in 1..Len(names) :
        names[i] = name /\ \A j \in (i + 1)..Len(names) : names[j] # name

\* C19: after a sequence of property writes the fields hold one entry per
\* written name, in the order of the names' first writes, each with the
\* value of its last write; no write on an instance fails.
C19_OneFieldPerName ==
    (Tag = "writes" /\ pc = 1) =>
        LET fields == st.insts[1]
        IN  /\ last.kind = "ok"
            /\ {fields[i].name : i \in DOMAIN fields} = Range(P[1])
            /\ \A i, j \in DOMAIN fields :
                    i < j => FirstAt(P[1], fields[i].name) < FirstAt(P[1], fields[j].name)
            /\ \A i \in DOMAIN fields :
                    fields[i].value = Number(P[2] + LastAt(P[1], fields[i].name))

\* C19 witness: the writes x, y, x have been done and the instance holds
\* two fields.
C19_RewrittenBetweenOthers ==
    /\ Tag = "writes"
    /\ P[1] = <<"x", "y", "x">>
    /\ pc = 1
    /\ Len(st.insts[1]) = 2

\* C20: 0 and the empty string are not truthy and are falsey; every other
\* number and string, and true, are truthy and not falsey; false is falsey
\* and not truthy; nil is truthy where a condition is tested and not falsey
\* where it is negated.
C20_TruthinessTable ==
    (Tag = "truth" /\ pc = 1) =>
        LET truthy == P[1][1] \in {"positive", "negative", "string", "true", "nil"}
            falsey == P[1][1] \in {"zero", "empty", "false"}
        IN  /\ last.kind = "ok"
            /\ P[1][2] = "if" => st.out = Lines(<<IF truthy THEN 1 ELSE 0>>)
            /\ P[1][2] = "not" => st.out = <<to_string(from_bool(falsey))>>

\* C20 witness: `if (nil)` has run and took its then-branch.
C20_NilTakesThenBranch ==
    /\ Tag = "truth"
    /\ P[1] = <<"nil", "if">>
    /\ pc = 1
    /\ st.out = Lines(<<1>>)

\* The value of LEFT in a "logical" session.
LeftValue(kind, v) ==
    CASE kind = "zero" -> Number(0)
      [] kind = "positive" -> Number(v)
      [] kind = "empty" -> String(<<>>)
      [] kind = "string" -> String(<<"a">>)
      [] kind = "true" -> True
      [] kind = "false" -> False
      [] kind = "nil" -> Nil

\* C21: `or` evaluates its right operand only when the left one is not
\* truthy and otherwise yields the left value itself; `and` evaluates its
\* right operand only when the left one is truthy and otherwise yields the
\* literal false; a skipped right operand has no side effect.
C21_LogicalShortCircuit ==
    (Tag = "logical" /\ pc = 1) =>
        LET truthy == P[1][2] \in {"positive", "string", "true", "nil"}
            both == Lines(<<P[2] + 1, P[2] + 1>>)
        IN  /\ last.kind = "ok"
            /\ P[1][1] = "Or" =>
                    st.out = IF truthy THEN <<to_string(LeftValue(P[1][2], P[2]))>>
                             ELSE both
            /\ P[1][1] = "And" =>
                    st.out = IF truthy THEN both ELSE <<to_string(False)>>

\* C21 witness: `0 and note(..)` has run, printed false and not the 0, and
\* the right operand printed nothing.
C21_AndYieldsFalseLiteral ==
    /\ Tag = "logical"
    /\ P[1] = <<"And", "zero">>
    /\ pc = 1
    /\ st.out = <<to_string(False)>>

\* What decides the equality of an operand of an "equality" session: its
\* type with its value, or for a function its name and arity.
EqualityKey(kind) ==
    CASE kind = "f_closure" -> "f"
      [] OTHER -> kind

\* C22: `==` never fails and `!=` is its negation; values of different types
\* are unequal, two Numbers or two Strings are equal exactly when their
\* values are, and two functions exactly when their names and arities are,
\* whatever environments they captured.
C22_EqualityByTypeAndValue ==
    (Tag = "equality" /\ pc = 1) =>
        LET equal == EqualityKey(P[2][1]) = EqualityKey(P[2][2])
        IN  /\ last.kind = "ok"
            /\ st.out = <<to_string(from_bool(IF P[1] = "EqualEqual" THEN equal
                                              ELSE ~equal))>>

\* C22 witness: the function f declared at top level has been compared with
\* the f that a call of mk made, which captured mk's frame.
C22_ClosureComparedWithGlobal ==
    /\ Tag = "equality"
    /\ P = <<"EqualEqual", <<"f", "f_closure">>>>
    /\ pc = 1
    /\ st.out = <<to_string(True)>>

\* C29: equality is reflexive and symmetric: `v == v` is true for every
\* value v, a Class or an Instance included, and `a == b` gives what
\* `b == a` gives.
C29_EqualityReflexiveSymmetric ==
    (Tag = "equality_pair" /\ pc = 1) =>
        /\ last.kind = "ok"
        /\ Len(st.out) = 2
        /\ st.out[1] = st.out[2]
        /\ P[1] = P[2] => st.out[1] = to_string(True)

\* C29 witness: a class has been compared with itself and the answer
\* printed is false.
C29_ClassUnequalToItself ==
    /\ Tag = "equality_pair"
    /\ P = <<"class", "class">>
    /\ pc = 1
    /\ st.out = <<to_string(False), to_string(False)>>

\* C23: define writes only the frame it is called on: a name defined in a
\* frame made by enclose leaves the enclosing frame's bindings as they
\* were, a second define of a name in one frame leaves the second value, a
\* defined name is found by a later lookup in its frame, and a name never
\* defined has no value.
C23_DefineWritesOwnFrame ==
    (Tag = "define" /\ pc = 1) =>
        /\ st.out = Lines(<<P + 1, P + 2, P + 3, P + 1>>)
        /\ last = [kind |-> "err", msg |-> "UndefinedVariable"]
        /\ lookup(st, GlobalFrame, "a") = Some(Number(P + 1))
        /\ lookup(st, GlobalFrame, "b") = None
        /\ lookup(st, GlobalFrame, "clock") = Some(NativeFunction("clock", 0))

\* C23 witness: the block has defined a and b in its own frame and ended,
\* and the global a has been printed again.
C23_BlockDefinedAndEnded ==
    /\ Tag = "define"
    /\ pc = 1
    /\ Len(st.out) = 4
    /\ Has(st.frames[GlobalFrame].values, "a")

\* The parts of the text of the "tokenize" session the model is running.
text_parts == TextParts[CHOOSE i \in 1..Len(TextParts) : TokenizeSessions[i] = Scripts[script]]

\* The tokens a text without comment or newline gives, all on one line.
TokensOf(text, line) ==
    CASE text = <<>> -> <<>>
      [] text = <<">", "=">> -> <<Token_new("GreaterEqual", text, line)>>
      [] text = <<"a">> -> <<Token_new("Identifier", text, line)>>
      [] text = <<">">> -> <<Token_new("Greater", text, line)>>
      [] text = <<"b", ";">> ->
            <<Token_new("Identifier", <<"b">>, line), Token_new("Semicolon", <<";">>, line)>>

\* C24: in tokenize a `//` comment ends at the end of its line: the tokens
\* of the following line are produced, in order, with the line number that
\* counts the newline, and the stream ends with one EOF token carrying the
\* last line number.
C24_CommentEndsAtNewline ==
    (Tag = "tokenize" /\ tokens # None) =>
        /\ tokens[1].ok
        /\ tokens[1].tokens = TokensOf(text_parts[1][1], 1) \o TokensOf(text_parts[2], 2)
                              \o <<Token_new("EOF", <<>>, 2)>>

\* C24 witness: `a// c`, a newline and `b;` have been tokenized and the
\* answer holds no token of the second line.
C24_SecondLineSwallowed ==
    /\ Tag = "tokenize"
    /\ P = <<"a", "/", "/", " ", "c", "\n", "b", ";">>
    /\ tokens = Some([ok |-> TRUE, code |-> 0,
                      tokens |-> <<Token_new("Identifier", <<"a">>, 1),
                                   Token_new("EOF", <<>>, 1)>>])

\* The token kind the claim gives each punctuation character.
OwnKind(ch) ==
    CASE ch = "(" -> "LeftParen"
      [] ch = ")" -> "RightParen"
      [] ch = "{" -> "LeftBrace"
      [] ch = "}" -> "RightBrace"
      [] ch = "," -> "Comma"
      [] ch = "." -> "Dot"
      [] ch = "-" -> "Minus"
      [] ch = "+" -> "Plus"
      [] ch = ";" -> "Semicolon"
      [] ch = "*" -> "Star"

\* C25: scan_tokens gives each single-character punctuation its own token
\* kind (`{` LeftBrace, `}` RightBrace, `)` alone RightParen), so the block
\* `{ }` lexes to LeftBrace RightBrace EOF and the parser accepts it.
C25_PunctuationOwnKind ==
    /\ (Tag = "punctuation" /\ tokens # None) =>
            /\ tokens[1].ok
            /\ Len(tokens[1].tokens) = 2
            /\ tokens[1].tokens[1].token_type = OwnKind(P[1])
            /\ tokens[1].tokens[2].token_type = "EOF"
    /\ (Tag = "block_text" /\ P = <<"{", " ", "}">> /\ tokens # None) =>
            /\ [i \in 1..3 |-> tokens[1].tokens[i].token_type]
                    = <<"LeftBrace", "RightBrace", "EOF">>
            /\ last.kind = "ok"
    /\ (Tag = "block_text" /\ tokens # None) => last.kind = "ok"

\* C25 witness: the line `{ }` has been lexed to LeftBrace RightParen EOF
\* and the parser refused it.
C25_BlockRefused ==
    /\ Tag = "block_text"
    /\ P = <<"{", " ", "}">>
    /\ tokens # None
    /\ tokens[1].ok
    /\ [i \in 1..3 |-> tokens[1].tokens[i].token_type] = <<"LeftBrace", "RightParen", "EOF">>
    /\ last = [kind |-> "err", msg |-> "ParseError"]

\* What a "nesting" session prints when every reference reaches the frame
\* of its declaration.
NestingPrints(kind, v) ==
    CASE kind = "block" -> Lines(<<v, v + 1>>)
      [] kind = "function" -> Lines(<<v, v + 1>>)
      [] kind = "closure" -> Lines(<<v + 1>>)
      [] kind = "params" -> Lines(<<v + 1, v + 2, v + 2>>)
      [] kind = "class_read" -> <<to_string(Class("C", EmptyMap, None)), NumToString(v)>>
      [] kind = "class_assign" -> Lines(<<v>>)

\* C26: resolver and interpreter agree on scope nesting: in a program the
\* resolver accepts, run once on a fresh interpreter, every read and
\* assignment with a distance reaches, without walking past the root, the
\* frame of the declaration the resolver matched, also inside methods of
\* classes with and without a superclass.
C26_DistancesReachDeclarations ==
    (Tag = "nesting" /\ pc = 1) =>
        /\ last.kind = "ok"
        /\ st.out = NestingPrints(P[1][1], P[2])

\* C26 witness: a method of a class with a superclass has assigned to the
\* class's own name, and the name read at top level afterwards is still
\* the class.
C26_AssignmentMissedDeclaration ==
    /\ Tag = "nesting"
    /\ P[1] = <<"class_assign", "super">>
    /\ pc = 1
    /\ last.kind = "ok"
    /\ st.out = <<to_string(Class("C", EmptyMap, None))>>

\* C27: inside a method of a class with a superclass, `this` and `super`
\* pass resolution wherever they stand in the body: directly, in a nested
\* block or if/while body at any depth, and in a function nested in the
\* method.
C27_ThisSuperAnywhereInMethod ==
    (Tag = "in_method" /\ pc = 1) => resolved_line.ok

\* C27 witness: `super.m` inside a block of a method has been refused by
\* the resolver.
C27_SuperInBlockRefused ==
    /\ Tag = "in_method"
    /\ P = <<"super", "block">>
    /\ pc = 1
    /\ last = [kind |-> "err", msg |-> "InvalidSuperUsage"]

\* C28: an assignment that fails because the name is undeclared changes no
\* frame: the name stays unbound in the global frame, so on the same
\* interpreter a later read of it fails as undefined and a later
\* assignment to it fails again.
C28_FailedAssignmentLeavesNoBinding ==
    (Tag = "assign_then_read" /\ pc >= 1) =>
        /\ last = [kind |-> "err", msg |-> "UndefinedVariable"]
        /\ lookup(st, GlobalFrame, "x") = None
        /\ st.out = <<>>

\* C28 witness: after the failed assignment in a block, the next line read
\* the name and printed the value the assignment had tried to store.
C28_ReadAfterFailedAssignment ==
    /\ Tag = "assign_then_read"
    /\ P[1] = "block"
    /\ pc = 2
    /\ last.kind = "ok"
    /\ st.out = Lines(<<P[2]>>)

\* C30: when interpret has finished a top-level statement, with success or
\* with a run-time error raised at any depth, the environment of the
\* top-level interpreter is the global frame again, so the next line
\* declares and reads its variables there.
C30_TopLevelBackAtGlobalFrame ==
    /\ status = "prompt" => interp.environment = GlobalFrame
    /\ (Tag = "depth" /\ pc = 1) =>
            (last.kind = "ok") = (P[1] = "success")
    /\ (Tag = "depth" /\ pc = 2) =>
            /\ last.kind = "ok"
            /\ st.out = Lines(<<P[2]>>)
            /\ lookup(st, GlobalFrame, "y") = Some(Number(P[2]))

\* C30 witness: a class declaration inside a block has failed, and the next
\* line has declared y and read it back.
C30_DeclaredAfterNestedError ==
    /\ Tag = "depth"
    /\ P[1] = "class"
    /\ pc = 2
    /\ interp.environment = GlobalFrame
    /\ Has(st.frames[GlobalFrame].values, "y")

====
